---- MODULE Spec2Model ----
(***************************************************************************)
(* A model of the viewer's client-side control logic:                      *)
(*   - the request layer of services/api (request, pendingCache) and the   *)
(*     endpoints built on it (fetchHealth, fetchAnnotations, ...);         *)
(*   - the two catalog caches (fetchLayersCatalog of services/api and      *)
(*     getLayerCatalog of services/layers);                                *)
(*   - the annotation synchronisation engine of the MapView component      *)
(*     (debounced fetch and save, remote apply, local mutations).          *)
(* Each part has its own next-state relation and specification; they share *)
(* the model of the network (net) and of the callers (calls).              *)
(***************************************************************************)
EXTENDS Integers, Sequences, FiniteSets, TLC

VARIABLES
  pendingCache,          \* api: Map<string, Promise>, as a set of <<cache key, fetch id>>
  net,                   \* the network calls made so far, in dispatch order
  calls,                 \* the calls made by the callers, in call order
  cachedCatalog,         \* api: memoized catalog, or NoCatalog
  cachedCatalogPromise,  \* api: fetch id of the pending catalog promise, or NoPromise
  catalogCache,          \* layers: memoized catalog, or NoCatalog
  catalogPromise,        \* layers: fetch id of the pending catalog promise, or NoPromise
  service,               \* which catalog service the viewer has used, or NoService
  invalidations,         \* history: clear / reset calls made so far, per cache
  forcedCalls            \* history: getLayerCatalog(true) calls made so far

VARIABLES
  source,                \* MapView: the features of annotationsSource, in getFeatures() order
  skipPersistRef,        \* MapView: the "applying remote state" flag
  saveTimeoutRef,        \* MapView: ticks left on the save debounce timer, or NoTimer
  fetchTimeoutRef,       \* MapView: ticks left on the fetch debounce timer, or NoTimer
  saves,                 \* the saveAnnotations calls in flight, in dispatch order
  loads,                 \* the loadAnnotations calls awaiting fetchAnnotations, in dispatch order
  annotationsError,      \* MapView: the message of the status area, or NoError
  hist                   \* history: what the user has done and when

VARIABLES
  requests,              \* Map: the create / delete calls in flight, in dispatch order
  importing,             \* Map: the entities an import in progress has still to add, or NoImport
  mapLog                 \* history: what the Map component has done

mapVars == <<requests, importing, mapLog>>

VARIABLES
  location,      \* window.location.hash
  hash,          \* the PermalinkState read from it when MapView was mounted
  linkLog,       \* history: the fragment read, the arguments of the last writeHash
  active,        \* MapView: the active layer
  date,          \* MapView: the date of the date field
  mapRef,        \* MapView: the map and its view
  moving,        \* the view has changed and moveend is still to be raised
  frame,         \* history: the last frame computed
  viewLog,       \* history: mounted or not, and how many gestures, changes, reloads
  baseLayerRef,  \* MapView: where the OSM layer of baseLayerRef is, or "null"
  tilePending,   \* MapView: the tiles counted as loading
  tileErrors,    \* MapView: the tiles counted as failed
  imagery        \* the tiles in flight, on the imagery source and on replaced ones

linkVars == <<location, hash, linkLog>>

tileVars == <<baseLayerRef, tilePending, tileErrors, imagery>>

viewVars == <<active, date, mapRef, moving, frame, viewLog, tileVars>>

syncVars == <<source, skipPersistRef, saveTimeoutRef, fetchTimeoutRef, saves, loads,
              annotationsError, hist>>

apiVars == <<pendingCache, net, calls, cachedCatalog, cachedCatalogPromise,
             catalogCache, catalogPromise, service, invalidations, forcedCalls>>

\* ---------------------------------------------------------------- bounds

MaxCalls == 3           \* calls of the request layer in one run
MaxCatalogCalls == 3    \* calls of the catalog cache in one run
MaxInvalidations == 1   \* clear / reset calls in one run

\* ------------------------------------------------------------ the network

Undefined == "undefined"
NoKey == <<>>
NoPromise == 0
NoCatalog == "null"
NoService == "none"

Range(s) == {s[i] : i \in DOMAIN s}

\* fetch(): a new network call, pending until the server answers.
NewFetch(api, method, url, body, cacheKey, forced) ==
  [api |-> api, method |-> method, url |-> url, body |-> body,
   cacheKey |-> cacheKey, forced |-> forced, status |-> "pending", value |-> Undefined,
   settledAt |-> -1]

PendingFetches == {f \in DOMAIN net : net[f].status = "pending"}

\* ------------------------------------------------- request (services/api)

\* Map.has, Map.get, Map.set, Map.delete
CacheHas(cache, key) == \E e \in cache : e[1] = key
CacheGet(cache, key) == (CHOOSE e \in cache : e[1] = key)[2]
CacheDelete(cache, key) == {e \in cache : e[1] # key}
CacheSet(cache, key, promise) == CacheDelete(cache, key) \cup {<<key, promise>>}

toUpperCase(method) == IF method = "get" THEN "GET" ELSE method

\* JSON.stringify of the bodies the model sends
stringify(body) == <<"json", body>>

Truthy(body) == body \notin {Undefined, "0"}

buildCacheKey(method, url, body) ==
  <<toUpperCase(method), url, IF Truthy(body) THEN stringify(body) ELSE <<>> >>

UseCacheNever(method, opt) == FALSE

\* the option useCache, which defaults to (method === "GET")
UseCache(method, opt) ==
  IF opt = "default" THEN method = "GET" ELSE opt = "true"

CacheKeyOf(method, url, body, opt) ==
  IF UseCache(method, opt) THEN buildCacheKey(method, url, body) ELSE NoKey

\* The callers whose own call is identical (method, url, body, option) and whose
\* outcome is still unsettled.
Unsettled(method, url, body, opt) ==
  {c \in DOMAIN calls :
     /\ calls[c].method = method /\ calls[c].url = url
     /\ calls[c].body = body /\ calls[c].opt = opt
     /\ calls[c].fetch # NoPromise
     /\ net[calls[c].fetch].status = "pending"}

\* The callers whose own call is identical and whose outcome has settled.
SettledCalls(method, url, body, opt) ==
  {c \in DOMAIN calls :
     /\ calls[c].method = method /\ calls[c].url = url
     /\ calls[c].body = body /\ calls[c].opt = opt
     /\ calls[c].fetch # NoPromise
     /\ net[calls[c].fetch].status # "pending"}

\* What the model records of a call: the request, the network call whose outcome it
\* receives, and (history) the identical calls unsettled and settled when it was made.
CallRecord(api, method, url, body, opt, fetch, got) ==
  [api |-> api, method |-> method, url |-> url, body |-> body, opt |-> opt,
   fetch |-> fetch, got |-> got,
   during |-> Unsettled(method, url, body, opt),
   after |-> SettledCalls(method, url, body, opt)]

\* request(path, options): joins the pending call of the same key, or fetches.
request(api, method, url, body, opt) ==
  LET cacheKey == CacheKeyOf(method, url, body, opt) IN
  /\ Len(calls) < MaxCalls
  /\ IF cacheKey # NoKey /\ CacheHas(pendingCache, cacheKey)
       THEN /\ calls' = Append(calls, CallRecord(api, method, url, body, opt,
                                                 CacheGet(pendingCache, cacheKey), "joined"))
            /\ UNCHANGED <<net, pendingCache>>
       ELSE /\ net' = Append(net, NewFetch(api, method, url, body, cacheKey, FALSE))
            /\ calls' = Append(calls, CallRecord(api, method, url, body, opt,
                                                 Len(net) + 1, "new"))
            /\ pendingCache' = IF cacheKey # NoKey
                                 THEN CacheSet(pendingCache, cacheKey, Len(net) + 1)
                                 ELSE pendingCache

SettleKeepsFailed(status) == status = "ok"

\* .finally(() => pendingCache.delete(cacheKey)): on success and on failure
SettleDeletes(status) == TRUE


\* The server answers fetch f; the promise chain of request() settles.
SettleFetch(f, status) ==
  /\ net' = [net EXCEPT ![f].status = status]
  /\ pendingCache' = IF net[f].cacheKey # NoKey /\ SettleDeletes(status)
                       THEN CacheDelete(pendingCache, net[f].cacheKey)
                       ELSE pendingCache

\* The calls of request() the model makes: <<method, url, body, useCache option>>
RequestInputs ==
  { <<"GET", "/u1", Undefined, "default">>,
    <<"GET", "/u2", Undefined, "default">>,
    <<"GET", "/u1", Undefined, "false">>,
    <<"get", "/u1", Undefined, "true">>,
    <<"POST", "/u1", "b1", "true">>,
    <<"POST", "/u1", "b2", "true">>,
    <<"POST", "/u1", "b1", "default">> }

Request ==
  /\ \E inp \in RequestInputs : request("request", inp[1], inp[2], inp[3], inp[4])
  /\ UNCHANGED <<syncVars, mapVars, linkVars, viewVars, cachedCatalog, cachedCatalogPromise, catalogCache, catalogPromise,
                 service, invalidations, forcedCalls>>

fetchHealth ==
  /\ request("fetchHealth", "GET", "/api/health", Undefined, "true")
  /\ UNCHANGED <<syncVars, mapVars, linkVars, viewVars, cachedCatalog, cachedCatalogPromise, catalogCache, catalogPromise,
                 service, invalidations, forcedCalls>>

\* ------------------------------------------------------ annotation reads

Queries == {"q1", "q2"}

\* `/v1/annotations${suffix}`: the query string is built from the parameters
AnnotationsUrl(q) == IF q = "q1" THEN "/v1/annotations?q1" ELSE "/v1/annotations?q2"

FetchAnnotationsDefaultOption == "default"

\* services/api fetchAnnotations passes useCache: false
FetchAnnotationsOption == "false"

fetchAnnotations ==
  /\ \E q \in Queries :
       request("fetchAnnotations", "GET", AnnotationsUrl(q), Undefined, FetchAnnotationsOption)
  /\ UNCHANGED <<syncVars, mapVars, linkVars, viewVars, cachedCatalog, cachedCatalogPromise, catalogCache, catalogPromise,
                 service, invalidations, forcedCalls>>

\* apiFetch (services/api of the MapView variant): fetch() with no cache at all
apiFetch(api, method, url, body, forced) ==
  /\ Len(calls) < MaxCalls
  /\ net' = Append(net, NewFetch(api, method, url, body, NoKey, forced))
  /\ calls' = Append(calls, CallRecord(api, method, url, body, "none", Len(net) + 1, "new"))
  /\ UNCHANGED pendingCache

\* services/annotations fetchAnnotations: apiFetch(`/v1/annotations?${query}`)
fetchAnnotationsFrame ==
  /\ \E q \in Queries :
       apiFetch("fetchAnnotationsFrame", "GET", AnnotationsUrl(q), Undefined, FALSE)
  /\ UNCHANGED <<syncVars, mapVars, linkVars, viewVars, cachedCatalog, cachedCatalogPromise, catalogCache, catalogPromise,
                 service, invalidations, forcedCalls>>

RequestApis == {"request", "fetchHealth", "fetchAnnotations", "fetchAnnotationsFrame"}

Settle ==
  /\ \E f \in PendingFetches, status \in {"ok", "err"} :
       /\ net[f].api \in RequestApis
       /\ SettleFetch(f, status)
  /\ UNCHANGED <<syncVars, mapVars, linkVars, viewVars, calls, cachedCatalog, cachedCatalogPromise, catalogCache, catalogPromise,
                 service, invalidations, forcedCalls>>

\* ------------------------------------------------------- catalog caches

Catalogs == {"catalogA", "catalogB"}

\* normalizeLayersResponse: the LayersCatalog built from the raw response
normalizeLayersResponse(raw) == IF raw = "catalogA" THEN "bodiesA" ELSE "bodiesB"

CallsOf(api) == {c \in DOMAIN calls : calls[c].api = api}
FetchesOf(api) == {f \in DOMAIN net : net[f].api = api}
PendingOf(api) == FetchesOf(api) \cap PendingFetches

\* What the model records of a catalog call: the request, what it returned (the
\* memoized value, a pending promise or a new one), and (history) the cache as the
\* call found it.
CatalogCall(api, cache, force, fetch, got, value, memo, slot, clean) ==
  CallRecord(api, "GET", "/v1/layers", Undefined, "false", fetch, got) @@
  [force |-> force, value |-> value, memo |-> memo, slot |-> slot,
   pendingAt |-> PendingOf(api), clean |-> clean,
   failedBefore |-> {f \in FetchesOf(api) : net[f].status = "err"}]

\* ---- services/api: fetchLayersCatalog, clearLayersCatalogCache

ApiClean == invalidations.api = 0

FetchLayersCatalogIgnoresMemo(memo) == FALSE

\* if (cachedCatalog) return cachedCatalog;
FetchLayersCatalogMemoized(memo) == memo # NoCatalog

FetchLayersCatalogIgnoresSlot(slot) == FALSE

\* if (cachedCatalogPromise) return cachedCatalogPromise;
FetchLayersCatalogJoins(slot) == slot # NoPromise

fetchLayersCatalog ==
  LET rec(fetch, got, value) ==
        CatalogCall("fetchLayersCatalog", "api", FALSE, fetch, got, value,
                    cachedCatalog, cachedCatalogPromise, ApiClean) IN
  /\ service \in {NoService, "services/api"}
  /\ service' = "services/api"
  /\ Cardinality(CallsOf("fetchLayersCatalog")) < MaxCatalogCalls
  /\ IF FetchLayersCatalogMemoized(cachedCatalog)
       THEN /\ calls' = Append(calls, rec(NoPromise, "memo", cachedCatalog))
            /\ UNCHANGED <<net, cachedCatalogPromise>>
       ELSE IF FetchLayersCatalogJoins(cachedCatalogPromise)
       THEN /\ calls' = Append(calls, rec(cachedCatalogPromise, "joined", Undefined))
            /\ UNCHANGED <<net, cachedCatalogPromise>>
       ELSE \* request("/v1/layers", { useCache: false }): always a network call
            /\ net' = Append(net, NewFetch("fetchLayersCatalog", "GET", "/v1/layers",
                                            Undefined, NoKey, FALSE))
            /\ calls' = Append(calls, rec(Len(net) + 1, "new", Undefined))
            /\ cachedCatalogPromise' = Len(net) + 1
  /\ UNCHANGED <<syncVars, mapVars, linkVars, viewVars, pendingCache, cachedCatalog, catalogCache, catalogPromise,
                 invalidations, forcedCalls>>

FailureKeepsSlot(slot) == slot

\* .catch((error) => { cachedCatalogPromise = null; throw error; })
FailureClearsSlot(slot) == NoPromise

\* The server answers the catalog fetch of fetchLayersCatalog.
fetchLayersCatalogSettle ==
  /\ \E f \in PendingOf("fetchLayersCatalog") :
       \/ \E raw \in Catalogs :
            /\ net' = [net EXCEPT ![f].status = "ok",
                                   ![f].value = normalizeLayersResponse(raw),
                                   ![f].settledAt = invalidations.api]
            /\ cachedCatalog' = normalizeLayersResponse(raw)
            /\ cachedCatalogPromise' = NoPromise
       \/ /\ net' = [net EXCEPT ![f].status = "err", ![f].settledAt = invalidations.api]
          /\ cachedCatalogPromise' = FailureClearsSlot(cachedCatalogPromise)
          /\ UNCHANGED cachedCatalog
  /\ UNCHANGED <<syncVars, mapVars, linkVars, viewVars, pendingCache, calls, catalogCache, catalogPromise, service, invalidations, forcedCalls>>

clearLayersCatalogCache ==
  /\ service \in {NoService, "services/api"}
  /\ service' = "services/api"
  /\ invalidations.api + invalidations.layers < MaxInvalidations
  /\ cachedCatalog' = NoCatalog
  /\ cachedCatalogPromise' = NoPromise
  /\ invalidations' = [invalidations EXCEPT !.api = @ + 1]
  /\ UNCHANGED <<syncVars, mapVars, linkVars, viewVars, pendingCache, net, calls, catalogCache, catalogPromise, forcedCalls>>

\* ---- services/layers: getLayerCatalog, resetLayerCatalogCache

LayersClean == invalidations.layers = 0 /\ forcedCalls = 0

GetLayerCatalogIgnoresMemo(force, memo) == FALSE

\* if (!force && catalogCache) return catalogCache;
GetLayerCatalogMemoized(force, memo) == ~force /\ memo # NoCatalog

GetLayerCatalogIgnoresSlot(force, slot) == FALSE

\* if (!force && catalogPromise) return catalogPromise;
GetLayerCatalogJoins(force, slot) == ~force /\ slot # NoPromise

getLayerCatalog ==
  \E force \in BOOLEAN :
    LET rec(fetch, got, value) ==
          CatalogCall("getLayerCatalog", "layers", force, fetch, got, value,
                      catalogCache, catalogPromise, LayersClean) IN
    /\ service \in {NoService, "services/layers"}
    /\ service' = "services/layers"
    /\ Cardinality(CallsOf("getLayerCatalog")) < MaxCatalogCalls
    /\ IF GetLayerCatalogMemoized(force, catalogCache)
         THEN /\ calls' = Append(calls, rec(NoPromise, "memo", catalogCache))
              /\ UNCHANGED <<net, catalogPromise>>
         ELSE IF GetLayerCatalogJoins(force, catalogPromise)
         THEN /\ calls' = Append(calls, rec(catalogPromise, "joined", Undefined))
              /\ UNCHANGED <<net, catalogPromise>>
         ELSE \* catalogPromise = apiFetch("/v1/layers").then(...).finally(...)
              /\ net' = Append(net, NewFetch("getLayerCatalog", "GET", "/v1/layers",
                                              Undefined, NoKey, force))
              /\ calls' = Append(calls, rec(Len(net) + 1, "new", Undefined))
              /\ catalogPromise' = Len(net) + 1
    /\ forcedCalls' = IF force THEN forcedCalls + 1 ELSE forcedCalls
    /\ UNCHANGED <<syncVars, mapVars, linkVars, viewVars, pendingCache, cachedCatalog, cachedCatalogPromise, catalogCache,
                   invalidations>>

FailureDropsMemo(memo) == NoCatalog

\* a rejected apiFetch skips .then: catalogCache is not assigned
FailureKeepsMemo(memo) == memo

\* The server answers a catalog fetch of getLayerCatalog.
getLayerCatalogSettle ==
  /\ \E f \in PendingOf("getLayerCatalog") :
       \/ \E catalog \in Catalogs :
            /\ net' = [net EXCEPT ![f].status = "ok", ![f].value = catalog,
                                   ![f].settledAt = invalidations.layers]
            /\ catalogCache' = catalog
       \/ /\ net' = [net EXCEPT ![f].status = "err", ![f].settledAt = invalidations.layers]
          /\ catalogCache' = FailureKeepsMemo(catalogCache)
  /\ catalogPromise' = NoPromise
  /\ UNCHANGED <<syncVars, mapVars, linkVars, viewVars, pendingCache, calls, cachedCatalog, cachedCatalogPromise,
                 service, invalidations, forcedCalls>>

resetLayerCatalogCache ==
  /\ service \in {NoService, "services/layers"}
  /\ service' = "services/layers"
  /\ invalidations.api + invalidations.layers < MaxInvalidations
  /\ catalogCache' = NoCatalog
  /\ catalogPromise' = NoPromise
  /\ invalidations' = [invalidations EXCEPT !.layers = @ + 1]
  /\ UNCHANGED <<syncVars, mapVars, linkVars, viewVars, pendingCache, net, calls, cachedCatalog, cachedCatalogPromise, forcedCalls>>

\* ------------------------------------------- annotation synchronisation
\* The MapView component after the map has been built for an active layer: the
\* annotation source, the two debounce timers, and the fetch / save calls.

MaxFeatures == 1
MaxMutations == 2
MaxMoves == 1

SaveDebounceMs == 400
FetchDebounceMs == 250

RECURSIVE Gcd(_, _)
Gcd(a, b) == IF b = 0 THEN a ELSE Gcd(b, a % b)

\* Time advances in ticks of the largest step that divides both debounce windows.
TickMs == Gcd(SaveDebounceMs, FetchDebounceMs)
SaveTicks == SaveDebounceMs \div TickMs
FetchTicks == FetchDebounceMs \div TickMs

NoTimer == -1
NoFrame == [layerKey |-> <<>>]
NoId == 0
NoSource == "null"
NoError == "null"
Names == {"a", "b"}

\* What the server may hold for the frame when a fetch is answered.
RemoteResponses == {<<>>, <<[id |-> 1, name |-> "a"]>>,
                    <<[id |-> 2, name |-> "b"], [id |-> 1, name |-> "a"]>>}

\* window.setTimeout(callback, ms) and window.clearTimeout, on a timer ref.
setTimeout(ticks) == ticks
Expired(timer) == timer = 0
Elapse(timer) == IF timer > 0 THEN timer - 1 ELSE timer

\* The feature objects still referenced: those in the source and those captured by
\* a save in flight (sourceFeatures).
PendingSaves == DOMAIN saves
UsedUids ==
  {source[i].uid : i \in DOMAIN source}
    \cup UNION {Range(saves[k].sourceFeatures) : k \in PendingSaves}
NewUid(used) == CHOOSE u \in 1..(Cardinality(used) + 1) :
                  u \notin used /\ \A v \in 1..(u - 1) : v \in used

\* geoJsonFormat.readFeature + setId + set(properties), one new object per record.
RECURSIVE readFeatures(_, _)
readFeatures(items, used) ==
  IF items = <<>> THEN <<>>
  ELSE LET u == NewUid(used)
       IN <<[uid |-> u, id |-> Head(items).id, name |-> Head(items).name]>>
            \o readFeatures(Tail(items), used \cup {u})

\* The records are added to what the source holds.
addWithoutClear(features, items, used) == features \o readFeatures(items, used)

\* source.clear() and an addFeature per record of the response.
clearAndAdd(features, items, used) == readFeatures(items, used)

\* The source is emptied before the answer is awaited.
clearedBeforeAwait(features) == <<>>

\* fetchAnnotations rejects: the statements after the await are skipped, the
\* source is as the call found it.
skippedByThrow(features) == features

\* The flag is left as the statements before left it.
finallyKeeps(flag) == flag

\* loadAnnotations' finally block: skipPersistRef.current = false.
finallyReset(flag) == FALSE

\* The labels of a list of features, in order.
Labels(features) == [i \in DOMAIN features |-> features[i].name]

\* The server ids carried by the features in the source or in a payload in flight.
UsedIds ==
  {source[i].id : i \in DOMAIN source}
    \cup UNION {{saves[k].payload[i].id : i \in DOMAIN saves[k].payload} : k \in PendingSaves}

Remove(features, i) ==
  [j \in 1..(Len(features) - 1) |-> IF j < i THEN features[j] ELSE features[j + 1]]

\* The effect that mounts the source listeners runs once, at first mount, when the
\* map (and so the source) has not been created yet.
SourceAtMount == NoSource
HandleChangeAttached == SourceAtMount # NoSource

schedulePersistAnnotations(skip, timer) ==
  IF skip THEN timer ELSE setTimeout(SaveTicks)

handleChangeUnguarded(skip, timer) == setTimeout(SaveTicks)

\* The addfeature / removefeature / changefeature listener.
handleChange(skip, timer) ==
  IF HandleChangeAttached /\ ~skip THEN schedulePersistAnnotations(skip, timer) ELSE timer

scheduleFetchIfIdle(timer) == IF timer # NoTimer THEN timer ELSE setTimeout(FetchTicks)

\* clearTimeout on the pending timer, if any, and a new timer of 250 ms
scheduleFetchAnnotations(timer) == setTimeout(FetchTicks)

\* the frame of the calls where the map is left out of the picture
SomeFrame == [layerKey |-> <<"gibs", ":", "a">>]

\* A trigger of the fetch: scheduleFetchAnnotations on the timer ref (history: no
\* time has passed since).
FetchScheduled ==
  /\ fetchTimeoutRef' = scheduleFetchAnnotations(fetchTimeoutRef)
  /\ hist' = [hist EXCEPT !.quiet = 0]

\* A new Map is created with a new, empty annotations source; the calls that
\* await a fetch keep the source of the map that is gone.
NewSource ==
  /\ source' = <<>>
  /\ loads' = [k \in DOMAIN loads |-> [loads[k] EXCEPT !.disposed = TRUE]]

\* History of a local mutation that leaves the features as given.
Mutated(after) ==
  [hist EXCEPT !.mutations = @ + 1, !.burst = @ + 1, !.elapsed = 0,
               !.after = Labels(after)]

CanMutate == hist.mutations < MaxMutations

\* Draw interaction: the drawend handler names the new feature and schedules a
\* save; the interaction adds the feature to the source in the same task.
DrawEnd ==
  /\ CanMutate /\ Len(source) < MaxFeatures
  /\ \E name \in Names :
       LET after == Append(source, [uid |-> NewUid(UsedUids), id |-> NoId, name |-> name])
       IN /\ source' = after
          /\ hist' = Mutated(after)
  /\ saveTimeoutRef' = handleChange(skipPersistRef,
                         schedulePersistAnnotations(skipPersistRef, saveTimeoutRef))
  /\ UNCHANGED <<skipPersistRef, fetchTimeoutRef, saves, loads, annotationsError, apiVars, mapVars, linkVars, viewVars>>

\* The "Renombrar" button of the notes panel.
Rename ==
  /\ CanMutate
  /\ \E i \in DOMAIN source, newName \in Names :
       LET after == [source EXCEPT ![i].name = newName]
       IN /\ source' = after
          /\ hist' = Mutated(after)
  /\ saveTimeoutRef' = schedulePersistAnnotations(skipPersistRef,
                         handleChange(skipPersistRef, saveTimeoutRef))
  /\ UNCHANGED <<skipPersistRef, fetchTimeoutRef, saves, loads, annotationsError, apiVars, mapVars, linkVars, viewVars>>

\* deleteSelected: removes the selected feature, or the last one when nothing is
\* selected, and schedules a save (also when the source is empty).
deleteSelected ==
  /\ CanMutate
  /\ \E i \in DOMAIN source \cup {0} :
       LET target == IF i # 0 THEN i ELSE Len(source)
           after == IF source = <<>> THEN source ELSE Remove(source, target)
       IN /\ source' = after
          /\ hist' = Mutated(after)
  /\ saveTimeoutRef' = schedulePersistAnnotations(skipPersistRef,
                         handleChange(skipPersistRef, saveTimeoutRef))
  /\ UNCHANGED <<skipPersistRef, fetchTimeoutRef, saves, loads, annotationsError, apiVars, mapVars, linkVars, viewVars>>

\* The "Borrar" button of the notes panel: removes the feature, nothing else.
PanelDelete ==
  /\ CanMutate
  /\ \E i \in DOMAIN source :
       LET after == Remove(source, i)
       IN /\ source' = after
          /\ hist' = Mutated(after)
  /\ saveTimeoutRef' = handleChange(skipPersistRef, saveTimeoutRef)
  /\ UNCHANGED <<skipPersistRef, fetchTimeoutRef, saves, loads, annotationsError, apiVars, mapVars, linkVars, viewVars>>

\* Modify interaction: modifyend schedules a save (geometries are not modelled).
ModifyEnd ==
  /\ CanMutate /\ source # <<>>
  /\ hist' = Mutated(source)
  /\ saveTimeoutRef' = schedulePersistAnnotations(skipPersistRef,
                         handleChange(skipPersistRef, saveTimeoutRef))
  /\ UNCHANGED <<source, skipPersistRef, fetchTimeoutRef, saves, loads, annotationsError, apiVars, mapVars, linkVars, viewVars>>

\* importGeoJSON (reader.onload): adds the parsed features with the flag set,
\* clears the flag and schedules a save.
importGeoJSON ==
  /\ CanMutate /\ Len(source) < MaxFeatures
  /\ \E name \in Names :
       LET after == source \o readFeatures(<<[id |-> NoId, name |-> name]>>, UsedUids)
       IN /\ source' = after
          /\ hist' = Mutated(after)
  /\ saveTimeoutRef' = schedulePersistAnnotations(FALSE, handleChange(TRUE, saveTimeoutRef))
  /\ skipPersistRef' = FALSE
  /\ UNCHANGED <<fetchTimeoutRef, saves, loads, annotationsError, apiVars, mapVars, linkVars, viewVars>>

\* moveend (and a layer or date change): (re)starts the fetch debounce timer.
MoveEnd ==
  /\ hist.moves < MaxMoves
  /\ fetchTimeoutRef' = scheduleFetchAnnotations(fetchTimeoutRef)
  /\ hist' = [hist EXCEPT !.moves = @ + 1, !.quiet = 0]
  /\ UNCHANGED <<source, skipPersistRef, saveTimeoutRef, saves, loads, annotationsError, apiVars, mapVars, linkVars, viewVars>>

\* The callback of the fetch timer: loadAnnotations up to its await, with the
\* frame computeFrame gives at that moment; nothing is fetched without a frame.
\* The call keeps the source it found in annotationsSourceRef.
loadAnnotations(computed) ==
  /\ Expired(fetchTimeoutRef)
  /\ fetchTimeoutRef' = NoTimer
  /\ IF computed = NoFrame
     THEN UNCHANGED <<loads, hist>>
     ELSE /\ loads' = Append(loads, [seq |-> hist.fetches + 1, frame |-> computed, disposed |-> FALSE])
          /\ hist' = [hist EXCEPT !.fetches = @ + 1]
  /\ UNCHANGED <<source, skipPersistRef, saveTimeoutRef, saves, annotationsError>>

\* The fetch timer fires.
LoadTimerFire ==
  /\ loadAnnotations(SomeFrame)
  /\ UNCHANGED <<apiVars, mapVars, linkVars, viewVars>>

\* fetchAnnotations settles: loadAnnotations after its await, on the source the
\* call started with (which a new map has replaced by then if it is disposed).
LoadSettle ==
  /\ \E k \in DOMAIN loads :
       /\ loads' = Remove(loads, k)
       /\ \/ \E remote \in RemoteResponses :
               /\ IF loads[k].disposed
                  THEN UNCHANGED <<source, saveTimeoutRef>>
                  ELSE /\ source' = clearAndAdd(source, remote, UsedUids)
                       /\ saveTimeoutRef' = handleChange(TRUE, saveTimeoutRef)
               /\ annotationsError' = NoError
               /\ hist' = [hist EXCEPT !.outcome = "ok",
                                       !.applied = IF loads[k].disposed THEN @ ELSE loads[k].seq]
               /\ skipPersistRef' = finallyReset(FALSE)
          \/ /\ annotationsError' = "No se pudieron cargar las anotaciones."
             /\ hist' = [hist EXCEPT !.outcome = "err"]
             /\ source' = IF loads[k].disposed THEN source ELSE skippedByThrow(source)
             /\ skipPersistRef' = finallyReset(skipPersistRef)
             /\ UNCHANGED saveTimeoutRef
  /\ UNCHANGED <<fetchTimeoutRef, saves, apiVars, mapVars, linkVars, viewVars>>

\* fetchAnnotations resolves with a first record that has no feature: the
\* source has been cleared with the flag set when readFeature throws.
LoadThrows ==
  /\ \E k \in DOMAIN loads :
       /\ loads' = Remove(loads, k)
       /\ source' = IF loads[k].disposed THEN source ELSE clearAndAdd(source, <<>>, UsedUids)
       /\ saveTimeoutRef' = handleChange(TRUE, saveTimeoutRef)
       /\ annotationsError' = "TypeError"
       /\ hist' = [hist EXCEPT !.outcome = "thrown"]
       /\ skipPersistRef' = finallyReset(TRUE)
  /\ UNCHANGED <<fetchTimeoutRef, saves, apiVars, mapVars, linkVars, viewVars>>

\* A payload of the features the server does not have yet.
PayloadOfUnsaved(sourceFeatures) ==
  LET unsaved == SelectSeq(sourceFeatures, LAMBDA feat : feat.id = NoId)
  IN [i \in DOMAIN unsaved |-> [id |-> NoId, order |-> i - 1, name |-> unsaved[i].name]]

\* The payload persistAnnotations builds from source.getFeatures().
Payload(sourceFeatures) ==
  [i \in DOMAIN sourceFeatures |->
     [id |-> sourceFeatures[i].id, order |-> i - 1, name |-> sourceFeatures[i].name]]

\* The callback of the save timer: persistAnnotations up to its await, with
\* the frame computeFrame gives at that moment; nothing is saved without one.
persistAnnotations(computed) ==
  /\ Expired(saveTimeoutRef)
  /\ saveTimeoutRef' = NoTimer
  /\ IF computed = NoFrame
     THEN UNCHANGED saves
     ELSE saves' = Append(saves,
            [frame |-> computed,
             payload |-> Payload(source),
             sourceFeatures |-> [i \in DOMAIN source |-> source[i].uid]])
  /\ hist' = [hist EXCEPT !.burst = 0]
  /\ UNCHANGED <<source, skipPersistRef, fetchTimeoutRef, loads, annotationsError>>

\* The save timer fires.
SaveTimerFire ==
  /\ persistAnnotations(SomeFrame)
  /\ UNCHANGED <<apiVars, mapVars, linkVars, viewVars>>

\* The records the server returns for a payload: one per submitted feature, in
\* order, with the id it had or a newly assigned one.
NewId(used) == CHOOSE id \in 1..(Cardinality(used) + 1) :
                 id \notin used /\ \A v \in 1..(id - 1) : v \in used

RECURSIVE Saved(_, _)
Saved(payload, used) ==
  IF payload = <<>> THEN <<>>
  ELSE LET item == Head(payload)
           id == IF item.id # NoId THEN item.id ELSE NewId(used)
       IN <<[id |-> id, order |-> item.order, name |-> item.name]>>
            \o Saved(Tail(payload), used \cup {id})

\* The i-th record goes to the i-th feature the source has now.
MergeInPlace(features, sourceFeatures, saved, withProperties) ==
  [i \in DOMAIN features |->
     IF i <= Len(saved)
     THEN [features[i] EXCEPT !.id = saved[i].id,
                              !.name = IF withProperties THEN saved[i].name ELSE @]
     ELSE features[i]]

\* Some of the features a save captured are no longer in the source (history).
Gone(sourceFeatures) ==
  \E i \in DOMAIN sourceFeatures : sourceFeatures[i] \notin {source[j].uid : j \in DOMAIN source}

\* persistAnnotations' merge: the i-th record goes to the i-th captured feature.
Merge(features, sourceFeatures, saved, withProperties) ==
  [i \in DOMAIN features |->
     IF \E k \in DOMAIN saved : sourceFeatures[k] = features[i].uid
     THEN LET k == CHOOSE k \in DOMAIN saved : sourceFeatures[k] = features[i].uid
          IN [features[i] EXCEPT !.id = saved[k].id,
                                 !.name = IF withProperties THEN saved[k].name ELSE @]
     ELSE features[i]]

\* saveAnnotations settles: persistAnnotations after its await.
SaveSettle ==
  /\ \E k \in PendingSaves :
       \/ \E withProperties \in BOOLEAN :
            LET saved == Saved(saves[k].payload, UsedIds)
            IN /\ saves' = Remove(saves, k)
               /\ source' = Merge(source, saves[k].sourceFeatures, saved, withProperties)
               /\ saveTimeoutRef' = handleChange(TRUE, saveTimeoutRef)
               /\ annotationsError' = NoError
               /\ hist' = [hist EXCEPT !.outcome = "ok",
                                       !.stale = source # <<>> /\ Gone(saves[k].sourceFeatures)]
       \/ /\ saves' = Remove(saves, k)
          /\ annotationsError' = "No se pudieron guardar las anotaciones."
          /\ hist' = [hist EXCEPT !.outcome = "err"]
          /\ UNCHANGED <<source, saveTimeoutRef>>
  /\ skipPersistRef' = FALSE
  /\ UNCHANGED <<fetchTimeoutRef, loads, apiVars, mapVars, linkVars, viewVars>>

\* saveAnnotations resolves with a first record that is null: the flag is set
\* when item.id throws, and the catch block clears it.
SaveThrows ==
  /\ \E k \in PendingSaves : saves' = Remove(saves, k)
  /\ annotationsError' = "TypeError"
  /\ hist' = [hist EXCEPT !.outcome = "thrown"]
  /\ skipPersistRef' = FALSE
  /\ UNCHANGED <<source, saveTimeoutRef, fetchTimeoutRef, loads, apiVars, mapVars, linkVars, viewVars>>

\* One tick of time passes; a timer that has expired fires before time moves on.
Tick ==
  /\ ~Expired(saveTimeoutRef) /\ ~Expired(fetchTimeoutRef)
  /\ saveTimeoutRef # NoTimer \/ fetchTimeoutRef # NoTimer \/ hist.elapsed < SaveTicks
  /\ saveTimeoutRef' = Elapse(saveTimeoutRef)
  /\ fetchTimeoutRef' = Elapse(fetchTimeoutRef)
  /\ hist' = [hist EXCEPT !.elapsed = IF @ < SaveTicks THEN @ + 1 ELSE @,
                          !.quiet = IF @ < FetchTicks THEN @ + 1 ELSE @]
  /\ UNCHANGED <<source, skipPersistRef, saves, loads, annotationsError, apiVars, mapVars, linkVars, viewVars>>

\* ------------------------------------------- Map: per-entity persistence
\* The Map component persists each entity on its own: a create call per drawn or
\* imported entity, a delete call per deleted persisted entity.  It shares the
\* annotation source (source) and the count of fetches awaited (loads).

\* The state of the debounced engine, which the Map component does not have.
syncRest == <<skipPersistRef, saveTimeoutRef, fetchTimeoutRef, saves, annotationsError, hist>>

MaxMapOps == 2
MaxImport == 2

MaxTokens == 6

MaxGestures == 2

MaxChanges == 1

MaxReloads == 1
MaxTiles == 2

NoImport == <<"idle">>
NoRequest == [kind |-> "none", origin |-> "none", uid |-> 0, id |-> NoId, status |-> "none"]

\* The files a user may import: one to MaxImport entities, named.
RECURSIVE Files(_)
Files(n) == IF n = 0 THEN {<<>>}
            ELSE LET shorter == Files(n - 1)
                 IN shorter \cup {Append(f, name) : f \in {g \in shorter : Len(g) = n - 1},
                                                    name \in Names}
ImportFiles == Files(MaxImport) \ {<<>>}

MapUsedUids ==
  {source[i].uid : i \in DOMAIN source} \cup {requests[k].uid : k \in DOMAIN requests}
MapUsedIds ==
  {source[i].id : i \in DOMAIN source} \cup {requests[k].id : k \in DOMAIN requests}

WithoutNothing(features, uid) == features

Without(features, uid) == SelectSeq(features, LAMBDA f : f.uid # uid)

CanOperate == mapLog.ops < MaxMapOps
Operated == [mapLog EXCEPT !.ops = @ + 1]
SettledAs(call, status) ==
  [mapLog EXCEPT !.settles = @ + 1,
                 !.last = [kind |-> call.kind, origin |-> call.origin,
                           uid |-> call.uid, id |-> call.id, status |-> status]]

\* persistAnnotation up to its await: one create call for the feature.
persistAnnotation(feature, origin) ==
  [kind |-> "POST", origin |-> origin, uid |-> feature.uid, id |-> feature.id]

\* The effect that loads the annotations of the frame: loadAnnotations up to its await.
MapLoadAnnotations ==
  /\ CanOperate
  /\ loads' = Append(loads, [seq |-> Len(loads) + 1, frame |-> SomeFrame, disposed |-> FALSE])
  /\ mapLog' = Operated
  /\ UNCHANGED <<syncRest, source, requests, importing, apiVars, linkVars, viewVars>>

\* fetchAnnotations settles: on success the source is cleared and refilled.
MapLoadSettle ==
  /\ loads # <<>>
  /\ loads' = Tail(loads)
  /\ \/ \E remote \in RemoteResponses : source' = readFeatures(remote, MapUsedUids)
     \/ UNCHANGED source
  /\ UNCHANGED <<syncRest, mapVars, apiVars, linkVars, viewVars>>

\* drawend: names the feature and persists it at once.
MapDrawEnd ==
  /\ CanOperate /\ Len(source) < MaxFeatures
  /\ \E name \in Names :
       LET feature == [uid |-> NewUid(MapUsedUids), id |-> NoId, name |-> name]
       IN /\ source' = Append(source, feature)
          /\ requests' = Append(requests, persistAnnotation(feature, "draw"))
  /\ mapLog' = Operated
  /\ UNCHANGED <<syncRest, loads,
                 importing, apiVars, linkVars, viewVars>>

\* importGeoJSON (reader.onload): the loop up to its first await: the first entity
\* is added and its create call dispatched.
MapImportGeoJSON ==
  /\ CanOperate /\ importing = NoImport
  /\ \E file \in ImportFiles :
       LET feature == [uid |-> NewUid(MapUsedUids), id |-> NoId, name |-> Head(file)]
       IN /\ source' = Append(source, feature)
          /\ requests' = Append(requests, persistAnnotation(feature, "import"))
          /\ importing' = Tail(file)
  /\ mapLog' = Operated
  /\ UNCHANGED <<syncRest, loads, apiVars, linkVars, viewVars>>

\* The import loop after an entity's persistence has settled: the next entity is
\* added and its create call dispatched, or the import ends.
ImportContinues(features, calls_, used) ==
  IF importing = <<>>
  THEN /\ source' = features
       /\ requests' = calls_
       /\ importing' = NoImport
  ELSE LET feature == [uid |-> NewUid(used), id |-> NoId, name |-> Head(importing)]
       IN /\ source' = Append(features, feature)
          /\ requests' = Append(calls_, persistAnnotation(feature, "import"))
          /\ importing' = Tail(importing)

\* createAnnotations settles.  On success the feature takes the id of the created
\* record; on failure the feature is removed from the source.
CreateSettle ==
  /\ \E k \in DOMAIN requests :
       /\ requests[k].kind = "POST"
       /\ \E status \in {"ok", "err"} :
            LET call == requests[k]
                features ==
                  IF status = "ok"
                  THEN [i \in DOMAIN source |->
                          IF source[i].uid = call.uid
                          THEN [source[i] EXCEPT !.id = NewId(MapUsedIds)]
                          ELSE source[i]]
                  ELSE Without(source, call.uid)
            IN /\ mapLog' = SettledAs(call, status)
               /\ IF call.origin = "import"
                  THEN ImportContinues(features, Remove(requests, k), MapUsedUids)
                  ELSE /\ source' = features
                       /\ requests' = Remove(requests, k)
                       /\ UNCHANGED importing
  /\ UNCHANGED <<syncRest, loads, apiVars, linkVars, viewVars>>

\* removeFeature(feature), the helper deleteSelected awaits: a persisted entity is
\* deleted remotely first (deleteAnnotation), an entity with no id only locally.
removeFeature(feature) ==
  [kind |-> "DELETE", origin |-> "selection", uid |-> feature.uid, id |-> feature.id]

\* deleteSelected (also the Delete key): the selected feature, or the last one.
MapDeleteSelected ==
  /\ CanOperate
  /\ \E i \in DOMAIN source :
       IF source[i].id # NoId
       THEN /\ requests' = Append(requests, removeFeature(source[i]))
            /\ UNCHANGED source
       ELSE /\ source' = Remove(source, i)
            /\ UNCHANGED requests
  /\ mapLog' = Operated
  /\ UNCHANGED <<syncRest, loads,
                 importing, apiVars, linkVars, viewVars>>

\* deleteAnnotation settles: the entity is removed only if the call succeeded.
DeleteSettle ==
  /\ \E k \in DOMAIN requests :
       /\ requests[k].kind = "DELETE"
       /\ requests' = Remove(requests, k)
       /\ \/ /\ source' = Without(source, requests[k].uid)
             /\ mapLog' = SettledAs(requests[k], "ok")
          \/ /\ UNCHANGED source
             /\ mapLog' = SettledAs(requests[k], "err")
  /\ UNCHANGED <<syncRest, loads,
                 importing, apiVars, linkVars, viewVars>>

\* deleteFeature, the per-item delete button of the notes list.
deleteFeature ==
  /\ CanOperate
  /\ \E i \in DOMAIN source : source' = Remove(source, i)
  /\ mapLog' = Operated
  /\ UNCHANGED <<syncRest, loads,
                 requests, importing, apiVars, linkVars, viewVars>>

\* ------------------------------------------------------ permalink codec
\* A string is a sequence of symbols.  A symbol is one character, or a run of
\* characters free of "," and "#" that no operator looks inside (a date, a
\* projection code, the parts of a layer key between its colons).  The tokens
\* of the numeric slots are spelt character by character, over the digits,
\* ".", "+", "-" and letters.
Digits == <<"0", "1", "2", "3", "4", "5", "6", "7", "8", "9">>

IsDigit(c) == \E i \in 1..Len(Digits) : Digits[i] = c

DigitValue(c) == (CHOOSE i \in 1..Len(Digits) : Digits[i] = c) - 1

RECURSIVE Pow10(_)
Pow10(n) == IF n <= 0 THEN 1 ELSE 10 * Pow10(n - 1)

RECURSIVE DigitsValue(_)
DigitsValue(text) ==
  IF text = <<>> THEN 0
  ELSE DigitsValue(SubSeq(text, 1, Len(text) - 1)) * 10 + DigitValue(text[Len(text)])

RECURSIVE DigitsOf(_)
DigitsOf(n) ==
  IF n < 10 THEN <<Digits[n + 1]>> ELSE Append(DigitsOf(n \div 10), Digits[(n % 10) + 1])

RECURSIVE Zeros(_)
Zeros(n) == IF n <= 0 THEN <<>> ELSE <<"0">> \o Zeros(n - 1)

\* JavaScript values: undefined, NaN, a finite number mant / 10^scale, a string
undefined == [type |-> "undefined"]

NaN == [type |-> "number", nan |-> TRUE, mant |-> 0, scale |-> 0]

Num(mant, scale) == [type |-> "number", nan |-> FALSE, mant |-> mant, scale |-> scale]

Str(text) == [type |-> "string", text |-> text]

\* Number(string) for a string without white space, exponent or radix prefix:
\* an optional sign, then digits with at most one decimal point and at least
\* one digit; anything else is NaN
Number(text) ==
  LET signed == text # <<>> /\ text[1] \in {"+", "-"}
      body == IF signed THEN Tail(text) ELSE text
      dots == {i \in 1..Len(body) : body[i] = "."}
      point == IF dots = {} THEN Len(body) + 1
               ELSE CHOOSE i \in dots : \A j \in dots : i <= j
      whole == SubSeq(body, 1, point - 1)
      fraction == SubSeq(body, point + 1, Len(body))
      literal == /\ Cardinality(dots) <= 1
                 /\ \A i \in 1..Len(body) : i \notin dots => IsDigit(body[i])
                 /\ Len(whole) + Len(fraction) >= 1
      magnitude == DigitsValue(whole \o fraction)
  IN IF text = <<>> THEN Num(0, 0)
     ELSE IF ~literal THEN NaN
     ELSE Num(IF signed /\ text[1] = "-" THEN 0 - magnitude ELSE magnitude, Len(fraction))

\* a toFixed that keeps one decimal less
toFixedShort(x, digits) ==
  IF x.nan THEN <<"N", "a", "N">>
  ELSE
    LET kept == digits - 1
        magnitude == IF x.mant < 0 THEN 0 - x.mant ELSE x.mant
        n == IF x.scale >= kept
             THEN (2 * magnitude + Pow10(x.scale - kept)) \div (2 * Pow10(x.scale - kept))
             ELSE magnitude * Pow10(kept - x.scale)
        short == DigitsOf(n)
        text == Zeros(kept + 1 - Len(short)) \o short
    IN (IF x.mant < 0 THEN <<"-">> ELSE <<>>)
         \o SubSeq(text, 1, Len(text) - kept) \o <<".">>
         \o SubSeq(text, Len(text) - kept + 1, Len(text))

\* Number.prototype.toFixed(digits): the nearest multiple of 10^-digits, the
\* larger one on a tie, written with exactly that many decimals
toFixed(x, digits) ==
  IF x.nan THEN <<"N", "a", "N">>
  ELSE
    LET magnitude == IF x.mant < 0 THEN 0 - x.mant ELSE x.mant
        n == IF x.scale >= digits
             THEN (2 * magnitude + Pow10(x.scale - digits)) \div (2 * Pow10(x.scale - digits))
             ELSE magnitude * Pow10(digits - x.scale)
        short == DigitsOf(n)
        text == Zeros(digits + 1 - Len(short)) \o short
    IN (IF x.mant < 0 THEN <<"-">> ELSE <<>>)
         \o SubSeq(text, 1, Len(text) - digits) \o <<".">>
         \o SubSeq(text, Len(text) - digits + 1, Len(text))

\* String.prototype.replace(pattern, "") with a string pattern: the first
\* occurrence only
replace(text, pattern) ==
  LET hits == {i \in 1..Len(text) : text[i] = pattern}
  IN IF hits = {} THEN text
     ELSE LET i == CHOOSE h \in hits : \A j \in hits : h <= j
          IN SubSeq(text, 1, i - 1) \o SubSeq(text, i + 1, Len(text))

\* a split that drops the empty pieces
RECURSIVE splitNonEmpty(_, _)
splitNonEmpty(text, separator) ==
  LET hits == {i \in 1..Len(text) : text[i] = separator}
  IN IF hits = {} THEN (IF text = <<>> THEN <<>> ELSE <<text>>)
     ELSE LET i == CHOOSE h \in hits : \A j \in hits : h <= j
          IN (IF i = 1 THEN <<>> ELSE <<SubSeq(text, 1, i - 1)>>)
               \o splitNonEmpty(SubSeq(text, i + 1, Len(text)), separator)

RECURSIVE split(_, _)
split(text, separator) ==
  LET hits == {i \in 1..Len(text) : text[i] = separator}
  IN IF hits = {} THEN <<text>>
     ELSE LET i == CHOOSE h \in hits : \A j \in hits : h <= j
          IN <<SubSeq(text, 1, i - 1)>> \o split(SubSeq(text, i + 1, Len(text)), separator)

Fields == <<"lon", "lat", "z", "d", "k", "p">>

NumericFields == {"lon", "lat", "z"}

\* `{}`: reading any field of it gives undefined
NoState == [f \in {Fields[i] : i \in 1..Len(Fields)} |-> undefined]

\* parts[i], undefined beyond the end of the array
Part(parts, i) == IF i <= Len(parts) THEN Str(parts[i]) ELSE undefined

\* a string is truthy unless it is empty; undefined is falsy
truthy(value) == value.type = "string" /\ value.text # <<>>

readHash(fragment) ==
  LET h == replace(fragment, "#")
      parts == split(h, ",")
      lon == Part(parts, 1)
      lat == Part(parts, 2)
      z == Part(parts, 3)
      d == Part(parts, 4)
      k == Part(parts, 5)
      p == Part(parts, 6)
  IN IF h = <<>> THEN NoState
     ELSE [lon |-> IF truthy(lon) THEN Number(lon.text) ELSE undefined,
           lat |-> IF truthy(lat) THEN Number(lat.text) ELSE undefined,
           z |-> IF truthy(z) THEN Number(z.text) ELSE undefined,
           d |-> IF truthy(d) THEN d ELSE undefined,
           k |-> IF truthy(k) THEN k ELSE undefined,
           p |-> IF truthy(p) THEN p ELSE undefined]

GEOJSON_DATA_PROJECTION == <<"EPSG:4326">>

WebMercator == <<"EPSG:3857">>

\* a coordinate pair carries the projection it is expressed in; its position
\* is kept in degrees, the projection arithmetic being exact far below the
\* precisions at stake.  Transforming from a projection the pair is not in
\* gives a meaningless pair.
Coordinate(crs, lon, lat) == [crs |-> crs, lon |-> lon, lat |-> lat]

transform(coordinate, from, to) ==
  IF coordinate.crs = from THEN [coordinate EXCEPT !.crs = to]
  ELSE Coordinate(to, NaN, NaN)

NewView(projection, center, zoom) == [projection |-> projection, center |-> center, zoom |-> zoom]

\* the fragment written by writeHash(view, dateISO, layerKey)
writeHash(view, dateISO, layerKey) ==
  LET proj == view.projection
      center == transform(view.center, proj, GEOJSON_DATA_PROJECTION)
  IN <<"#">> \o toFixed(center.lon, 5) \o <<",">> \o toFixed(center.lat, 5) \o <<",">>
       \o toFixed(view.zoom, 2) \o <<",">> \o dateISO \o <<",">> \o layerKey \o <<",">> \o proj

\* ---- fragments a user can open, and views the program can write
RECURSIVE Join(_)
Join(tokens) ==
  IF tokens = <<>> THEN <<>>
  ELSE IF Len(tokens) = 1 THEN tokens[1]
  ELSE tokens[1] \o <<",">> \o Join(Tail(tokens))

\* window.location.hash: "#" and the fragment, or "" when the fragment is empty
Fragment(tokens) == IF Join(tokens) = <<>> THEN <<>> ELSE <<"#">> \o Join(tokens)

\* the tokens tried in each slot, each with the number a numeral denotes
Numerals ==
  {[text |-> <<"1", "0", ".", "5">>, value |-> Num(105, 1)],
   [text |-> <<"-", "7", "4">>, value |-> Num(0 - 74, 0)],
   [text |-> <<"2", "0", ".", "2", "5">>, value |-> Num(2025, 2)],
   [text |-> <<"3">>, value |-> Num(3, 0)]}

SlotTokens(i) ==
  CASE i = 1 -> {<<>>, <<"1", "0", ".", "5">>, <<"-", "7", "4">>, <<"a", "b", "c">>}
    [] i = 2 -> {<<>>, <<"2", "0", ".", "2", "5">>, <<"a", "b", "c">>}
    [] i = 3 -> {<<>>, <<"3">>, <<"1", ".", "2", ".", "3">>}
    [] i = 4 -> {<<>>, <<"2024-01-01">>}
    [] i = 5 -> {<<>>, <<"gibs", ":", "a">>}
    [] i = 6 -> {<<>>, <<"EPSG:4326">>}
    [] OTHER -> {<<>>, <<"x">>}

RECURSIVE TokenLists(_)
TokenLists(n) ==
  IF n = 0 THEN {<<>>}
  ELSE {Append(tokens, token) : tokens \in TokenLists(n - 1), token \in SlotTokens(n)}

SUPPORTED_PROJECTIONS == {WebMercator, GEOJSON_DATA_PROJECTION}

Today == <<"2025-10-04">>

Dates == {<<"2024-01-01">>, Today}

Lons == {Num(0, 6), Num(10500000, 6), Num(0 - 73999995, 6), Num(4, 6), Num(0 - 5, 6),
         Num(179999999, 6)}

Lats == {Num(0, 6), Num(20250000, 6), Num(0 - 45123456, 6)}

Zooms == {Num(2000, 3), Num(3455, 3), Num(12995, 3)}

\* SolarSystem: the bodies of KEYS, each with its layer key and projection
KEYS ==
  [Earth |-> [key |-> <<"gibs", ":", "MODIS_Terra_CorrectedReflectance_TrueColor">>, proj |-> WebMercator],
   Moon |-> [key |-> <<"trek", ":", "Moon", ":", "https", ":",
                       "//trek.nasa.gov/tiles/Moon/EQ/LRO_LOLA_ClrShade_Global_128ppd_v04">>,
             proj |-> GEOJSON_DATA_PROJECTION]]

LayerKeys == {KEYS[body].key : body \in DOMAIN KEYS}

NoArgs == [view |-> "none"]

\* a browser tab in which nothing has been opened or written yet
NewTab == location = <<>> /\ linkLog.wrote = NoArgs

\* the user opens a link: the page loads and MapView reads the fragment
Open ==
  \E n \in 0..MaxTokens : \E tokens \in TokenLists(n) :
    /\ NewTab
    /\ location' = Fragment(tokens)
    /\ hash' = readHash(Fragment(tokens))
    /\ linkLog' = [opened |-> Fragment(tokens), wrote |-> NoArgs]
    /\ UNCHANGED <<apiVars, syncVars, mapVars, viewVars>>

\* SolarSystem.go: navigate to the map with the fragment of a body
go ==
  \E body \in DOMAIN KEYS :
    LET cfg == KEYS[body]
        fragment == <<"#", ",", ",", ",">> \o Today \o <<",">> \o cfg.key \o <<",">> \o cfg.proj
    IN /\ NewTab
       /\ location' = fragment
       /\ hash' = readHash(fragment)
       /\ linkLog' = [opened |-> fragment, wrote |-> NoArgs]
       /\ UNCHANGED <<apiVars, syncVars, mapVars, viewVars>>

\* writeHash applied to a view and to the date and layer of the moment
WriteHash ==
  /\ NewTab
  /\ \E projection \in SUPPORTED_PROJECTIONS, lon \in Lons, lat \in Lats, zoom \in Zooms,
     dateISO \in Dates, layerKey \in LayerKeys :
       LET view == NewView(projection, Coordinate(projection, lon, lat), zoom)
       IN /\ location' = writeHash(view, dateISO, layerKey)
          /\ linkLog' = [linkLog EXCEPT !.wrote = [view |-> view, dateISO |-> dateISO,
                                                    layerKey |-> layerKey]]
          /\ UNCHANGED <<hash, apiVars, syncVars, mapVars, viewVars>>

\* the page is loaded again from the address bar
Reload ==
  /\ location # <<>>
  /\ hash' = readHash(location)
  /\ linkLog' = [linkLog EXCEPT !.opened = location]
  /\ UNCHANGED <<location, apiVars, syncVars, mapVars, viewVars>>

\* ------------------------------------------------- MapView: view and frame
\* The layers of the catalog, in catalog order (Object.values of the record
\* /v1/layers answers, flattened): the Moon's layers come first.  Two bodies;
\* the layers of "earth" do not share one projection.  minZoom is what a layer record of
\* /v1/layers can carry besides the fields ApiLayer declares.
Catalog ==
  <<[layerKey |-> <<"trek", ":", "Moon", ":", "c">>, body |-> <<"Moon">>, kind |-> "trek",
     projection |-> GEOJSON_DATA_PROJECTION,
     tileTemplate |-> <<"https://trek/moon/c/{z}/{y}/{x}.jpg">>,
     defaultDate |-> <<>>, minZoom |-> undefined, maxZoom |-> undefined],
    [layerKey |-> <<"gibs", ":", "a">>, body |-> <<"earth">>, kind |-> "gibs", projection |-> WebMercator,
     tileTemplate |-> <<"https://gibs/a/", "{date}", "/{z}/{y}/{x}.jpg">>,
     defaultDate |-> <<"2024-01-01">>, minZoom |-> undefined, maxZoom |-> undefined],
    [layerKey |-> <<"gibs", ":", "b">>, body |-> <<"earth">>, kind |-> "gibs",
     projection |-> GEOJSON_DATA_PROJECTION,
     tileTemplate |-> <<"https://gibs/b/", "{date}", "/{z}/{y}/{x}.jpg">>,
     defaultDate |-> <<>>, minZoom |-> undefined, maxZoom |-> undefined],
    [layerKey |-> <<"gibs", ":", "d">>, body |-> <<"Earth">>, kind |-> "gibs", projection |-> WebMercator,
     tileTemplate |-> <<"https://gibs/d/", "{date}", "/{z}/{y}/{x}.jpg">>,
     defaultDate |-> <<>>, minZoom |-> Num(5, 0), maxZoom |-> Num(9, 0)]>>

allLayers == {Catalog[i] : i \in 1..Len(Catalog)}

NoLayer == [layerKey |-> <<>>]

NoMap == [current |-> "null"]

\* Array.prototype.find over the catalog: the first of the layers that match
First(matching) ==
  IF \E i \in 1..Len(Catalog) : Catalog[i] \in matching
  THEN Catalog[CHOOSE i \in 1..Len(Catalog) :
                 Catalog[i] \in matching /\ \A j \in 1..(i - 1) : Catalog[j] \notin matching]
  ELSE NoLayer

findLayer(key) == First({layer \in allLayers : layer.layerKey = key})

layerNeedsDate(layer) == \E i \in 1..Len(layer.tileTemplate) : layer.tileTemplate[i] = "{date}"

layerDefaultDate(layer, fallbackISO) ==
  IF Len(layer.defaultDate) > 0 THEN layer.defaultDate ELSE fallbackISO

\* String.prototype.toLowerCase on the symbols that have capitals
toLowerCase(text) ==
  [i \in 1..Len(text) |-> CASE text[i] = "Moon" -> "moon"
                            [] text[i] = "Earth" -> "earth"
                            [] OTHER -> text[i]]

startsWith(text, prefix) ==
  Len(text) >= Len(prefix) /\ SubSeq(text, 1, Len(prefix)) = prefix

\* the layer MapView activates once the catalog is there: the layer of the
\* permalink, else the first layer of the body a "trek:" key names, else the
\* first GIBS layer for a "gibs:" key; failing all that the first GIBS layer,
\* else the first layer
InitialLayer(state) ==
  LET gibsLayers == {layer \in allLayers : layer.kind = "gibs"}
      key == IF state.k = undefined THEN <<>> ELSE state.k.text
      parts == split(key, ":")
      ofBody == {layer \in allLayers :
                   Len(parts) >= 2 /\ toLowerCase(layer.body) = toLowerCase(parts[2])}
      named == IF key # <<>> THEN findLayer(key) ELSE NoLayer
      trek == IF named = NoLayer /\ key # <<>> /\ startsWith(key, <<"trek", ":">>)
              THEN First(ofBody) ELSE named
      gibs == IF trek = NoLayer /\ key # <<>> /\ startsWith(key, <<"gibs", ":">>)
              THEN First(gibsLayers) ELSE trek
  IN IF gibs # NoLayer THEN gibs
     ELSE IF First(gibsLayers) # NoLayer THEN First(gibsLayers)
     ELSE First(allLayers)

targetProj(layer) ==
  IF layer.projection = GEOJSON_DATA_PROJECTION THEN GEOJSON_DATA_PROJECTION ELSE WebMercator

\* a < b on finite numbers; any comparison with NaN is false
Less(a, b) ==
  LET scale == IF a.scale > b.scale THEN a.scale ELSE b.scale
  IN /\ ~a.nan /\ ~b.nan
     /\ a.mant * Pow10(scale - a.scale) < b.mant * Pow10(scale - b.scale)

\* Math.min and Math.max: NaN if either argument is
MathMin(a, b) == IF a.nan \/ b.nan THEN NaN ELSE IF Less(b, a) THEN b ELSE a

MathMax(a, b) == IF a.nan \/ b.nan THEN NaN ELSE IF Less(a, b) THEN b ELSE a

\* layer.maxZoom ?? (targetProj === "EPSG:4326" ? 10 : 14)
maxZoom(layer, projection) ==
  IF layer.maxZoom # undefined THEN layer.maxZoom
  ELSE IF projection = GEOJSON_DATA_PROJECTION THEN Num(10, 0) ELSE Num(14, 0)

\* the latitude at which the extent of a projection ends: the world of
\* EPSG:3857 is a square, that of EPSG:4326 reaches the poles
MaxLatitude(projection) ==
  IF projection = WebMercator THEN Num(850511288, 7) ELSE Num(90, 0)

clamp(value, min, max) == MathMin(MathMax(value, min), max)

\* new View({projection, center, zoom, maxZoom}): the view of a world
\* projection keeps its center inside the extent of the projection (the
\* multiWorld option is left at false) and its zoom between 0 and maxZoom
View(projection, center, zoom, maxZoomOption) ==
  [projection |-> projection,
   center |-> [center EXCEPT !.lat = clamp(@, Num(0 - MaxLatitude(projection).mant,
                                                  MaxLatitude(projection).scale),
                                           MaxLatitude(projection))],
   zoom |-> clamp(zoom, Num(0, 0), maxZoomOption),
   maxZoom |-> maxZoomOption]

setMaxZoom(view, zoom) == View(view.projection, view.center, view.zoom, zoom)

NoBase == "null"

ensureProjectionSkipped(refs, layer) == refs

\* ensureProjection(layer, keepCenter = true) on the map of mapRef: nothing
\* without a map; a new view in the layer's projection around the same place
\* when the projections differ, a new maxZoom on the view otherwise; then the
\* OSM layer is inserted for EPSG:3857 unless baseLayerRef holds one, and the
\* layer of baseLayerRef is removed from the map for EPSG:4326
ensureProjection(refs, layer) ==
  IF refs.mapRef = NoMap THEN refs
  ELSE
    LET map == refs.mapRef
        view == map.view
        currentProj == view.projection
        center4326 == transform(view.center, currentProj, GEOJSON_DATA_PROJECTION)
        newView ==
          IF currentProj # targetProj(layer)
          THEN View(targetProj(layer),
                    transform(center4326, GEOJSON_DATA_PROJECTION, targetProj(layer)),
                    MathMax(Num(2, 0), MathMin(view.zoom, maxZoom(layer, targetProj(layer)))),
                    maxZoom(layer, targetProj(layer)))
          ELSE setMaxZoom(view, maxZoom(layer, targetProj(layer)))
    IN IF targetProj(layer) = WebMercator
       THEN IF refs.baseLayerRef = NoBase
            THEN [mapRef |-> [view |-> newView, base |-> map.base + 1], baseLayerRef |-> "current"]
            ELSE [mapRef |-> [map EXCEPT !.view = newView], baseLayerRef |-> refs.baseLayerRef]
       ELSE IF refs.baseLayerRef # NoBase
            THEN [mapRef |-> [view |-> newView,
                              base |-> IF refs.baseLayerRef = "current" THEN map.base - 1
                                       ELSE map.base],
                  baseLayerRef |-> NoBase]
            ELSE [mapRef |-> [map EXCEPT !.view = newView], baseLayerRef |-> refs.baseLayerRef]

desiredProj(state, layer) ==
  IF state.p # undefined /\ state.p.text \in SUPPORTED_PROJECTIONS
  THEN state.p.text ELSE targetProj(layer)

\* the Map built by the initialisation effect: the view comes from the
\* permalink read at mount, its projection too when it is a supported one; an
\* OSM layer is added for EPSG:3857, and baseLayerRef is left as it is
\* otherwise, holding the OSM layer of the map just disposed of if it held one
NewMap(state, layer, base) ==
  LET place == IF state.lon # undefined /\ state.lat # undefined
               THEN Coordinate(GEOJSON_DATA_PROJECTION, state.lon, state.lat)
               ELSE Coordinate(GEOJSON_DATA_PROJECTION, Num(0, 0), Num(0, 0))
      view == View(desiredProj(state, layer),
                   transform(place, GEOJSON_DATA_PROJECTION, desiredProj(state, layer)),
                   IF state.z # undefined THEN state.z ELSE Num(2, 0),
                   maxZoom(layer, desiredProj(state, layer)))
  IN IF desiredProj(state, layer) = WebMercator
     THEN [mapRef |-> [view |-> view, base |-> 1], baseLayerRef |-> "current"]
     ELSE [mapRef |-> [view |-> view, base |-> 0],
           baseLayerRef |-> IF base = NoBase THEN NoBase ELSE "disposed"]

\* the imagery layer is replaced: the listeners makeImageryLayer attached to
\* the source of the old one are removed, whatever tiles it is still loading
NoTiles == [loading |-> 0, orphaned |-> 0]

replaceImagery(sources) == [loading |-> 0, orphaned |-> sources.orphaned + sources.loading]

\* the date handed to writeHash and to the tile template
dateISOToday(dateRef, layer) == Today

dateISO(dateRef, layer) ==
  IF dateRef # <<>> THEN dateRef ELSE layerDefaultDate(layer, Today)

computeFrame(map, layer, dateRef) ==
  IF map = NoMap \/ layer = NoLayer THEN NoFrame
  ELSE LET view == map.view
           projectionCode == view.projection
           center == transform(view.center, projectionCode, GEOJSON_DATA_PROJECTION)
       IN [layerKey |-> layer.layerKey,
           projection |-> projectionCode,
           date |-> IF layerNeedsDate(layer) /\ dateRef # <<>> THEN Str(dateRef) ELSE undefined,
           zoom |-> view.zoom,
           center |-> [lon |-> center.lon, lat |-> center.lat]]

\* ---- the links MapView is started from, and where the user moves the view
StartFragments ==
  {Fragment(place \o <<d, k, p>>) :
     place \in {<<<<>>, <<>>, <<>>>>,
                <<<<"1", "0", ".", "5">>, <<"2", "0", ".", "2", "5">>, <<"3">>>>},
     d \in {<<>>, <<"2024-01-01">>},
     k \in {<<>>, <<"gibs", ":", "b">>, <<"trek", ":", "moon", ":", "zz">>},
     p \in {<<>>, GEOJSON_DATA_PROJECTION, WebMercator}}
    \cup {Fragment(<<<<"0">>, <<"8", "8">>, <<"3">>, <<>>, <<>>, GEOJSON_DATA_PROJECTION>>)}

Places == {[lon |-> Num(0 - 73999995, 6), lat |-> Num(0 - 45123456, 6), zoom |-> Num(3455, 3)],
           [lon |-> Num(4, 6), lat |-> Num(0, 6), zoom |-> Num(12995, 3)]}

\* MapView is mounted on the fragment of the address bar
mounted(fragment) ==
  /\ location' = fragment
  /\ hash' = readHash(fragment)
  /\ date' = IF readHash(fragment).d # undefined THEN readHash(fragment).d.text ELSE <<>>
  /\ active' = NoLayer
  /\ mapRef' = NoMap
  /\ moving' = FALSE
  /\ frame' = NoFrame
  /\ linkLog' = [opened |-> fragment, wrote |-> NoArgs]
  /\ baseLayerRef' = NoBase
  /\ tilePending' = 0
  /\ tileErrors' = 0
  /\ imagery' = NoTiles
  /\ UNCHANGED <<apiVars, syncVars, mapVars>>

Mount ==
  /\ ~viewLog.mounted /\ ~viewLog.torn
  /\ \E fragment \in StartFragments : mounted(fragment)
  /\ viewLog' = [viewLog EXCEPT !.mounted = TRUE]

\* the page is loaded again on the permalink of the moment
Remount ==
  /\ viewLog.mounted
  /\ viewLog.reloads < MaxReloads
  /\ mounted(location)
  /\ viewLog' = [viewLog EXCEPT !.reloads = @ + 1]

Wrote(map, text, layer) == [view |-> map.view, dateISO |-> text, layerKey |-> layer.layerKey]

\* setActive(next) and the effects of the render it causes: the default date
\* when there is none, a new Map whose view is the permalink's (the
\* ensureProjection call of that effect finds mapRef empty), then
\* ensureProjection on the new map, replaceImagery with its writeHash, and the
\* same once more for the date just set
setActive(next) ==
  LET nextDate == IF date # <<>> THEN date ELSE layerDefaultDate(next, Today)
      built == NewMap(hash, next, baseLayerRef)
      refs == ensureProjection(built, next)
      map == refs.mapRef
  IN /\ active' = next
     /\ date' = nextDate
     /\ mapRef' = map
     /\ baseLayerRef' = refs.baseLayerRef
     /\ imagery' = replaceImagery(imagery)
     /\ moving' = TRUE
     /\ location' = writeHash(map.view, dateISO(nextDate, next), next.layerKey)
     /\ linkLog' = [linkLog EXCEPT !.wrote = Wrote(map, dateISO(nextDate, next), next)]
     /\ NewSource
     /\ FetchScheduled
     /\ UNCHANGED <<hash, frame, tilePending, tileErrors, apiVars, mapVars,
                    skipPersistRef, saveTimeoutRef, saves, annotationsError>>

\* the catalog has arrived and no layer is active yet
CatalogLoaded ==
  /\ viewLog.mounted
  /\ active = NoLayer
  /\ InitialLayer(hash) # NoLayer
  /\ setActive(InitialLayer(hash))
  /\ UNCHANGED viewLog

\* the keys the layer menu can hand to handleChangeLayer: those of the
\* catalog, and one the catalog does not have
RequestedKeys == {layer.layerKey : layer \in allLayers} \cup {<<"gibs", ":", "zz">>}

sameBodyAny(next, current) == TRUE

sameBody(next, current) == toLowerCase(next.body) = toLowerCase(current.body)

\* handleChangeLayer(key): nothing without an active layer, for a key the
\* catalog does not have, or for a layer of another body
handleChangeLayer ==
  \E key \in RequestedKeys :
    LET next == findLayer(key)
    IN /\ viewLog.mounted
       /\ viewLog.changes < MaxChanges
       /\ IF active # NoLayer /\ next # NoLayer /\ sameBody(next, active)
          THEN /\ viewLog' = [viewLog EXCEPT !.changes = @ + 1]
               /\ IF next # active
                  THEN setActive(next)
                  ELSE /\ FetchScheduled
                       /\ UNCHANGED <<source, loads, skipPersistRef, saveTimeoutRef, saves,
                                      annotationsError, active, date, mapRef, moving, frame,
                                      tileVars, apiVars, mapVars, linkVars>>
          ELSE UNCHANGED <<apiVars, syncVars, mapVars, linkVars, viewVars>>

\* the date field of the navigation bar, which can be emptied
onChangeDate ==
  \E value \in Dates \cup {<<>>} :
    /\ viewLog.mounted
    /\ viewLog.changes < MaxChanges
    /\ value # date
    /\ date' = value
    /\ viewLog' = [viewLog EXCEPT !.changes = @ + 1]
    /\ IF mapRef # NoMap /\ active # NoLayer
       THEN LET refs == ensureProjection([mapRef |-> mapRef, baseLayerRef |-> baseLayerRef], active)
                map == refs.mapRef
            IN /\ mapRef' = map
               /\ baseLayerRef' = refs.baseLayerRef
               /\ imagery' = replaceImagery(imagery)
               /\ location' = writeHash(map.view, dateISO(value, active), active.layerKey)
               /\ linkLog' = [linkLog EXCEPT !.wrote = Wrote(map, dateISO(value, active), active)]
               /\ FetchScheduled
       ELSE UNCHANGED <<mapRef, baseLayerRef, imagery, location, linkLog, fetchTimeoutRef, hist>>
    /\ UNCHANGED <<active, moving, hash, frame, tilePending, tileErrors, apiVars, mapVars,
                   source, loads, skipPersistRef, saveTimeoutRef, saves, annotationsError>>

\* one frame of a drag or a zoom: the view changes, moveend is still to come
Gesture ==
  \E place \in Places :
    /\ mapRef # NoMap
    /\ viewLog.gestures < MaxGestures
    /\ mapRef' = [mapRef EXCEPT !.view = View(mapRef.view.projection,
                                              Coordinate(mapRef.view.projection, place.lon, place.lat),
                                              place.zoom, mapRef.view.maxZoom)]
    /\ moving' = TRUE
    /\ viewLog' = [viewLog EXCEPT !.gestures = @ + 1]
    /\ UNCHANGED <<active, date, location, hash, linkLog, frame, tileVars, apiVars, syncVars, mapVars>>

\* moveend
onMove ==
  /\ mapRef # NoMap
  /\ moving
  /\ moving' = FALSE
  /\ IF active = NoLayer
     THEN UNCHANGED <<location, linkLog, fetchTimeoutRef, hist>>
     ELSE /\ location' = writeHash(mapRef.view, dateISO(date, active), active.layerKey)
          /\ linkLog' = [linkLog EXCEPT !.wrote = Wrote(mapRef, dateISO(date, active), active)]
          /\ FetchScheduled
  /\ UNCHANGED <<active, date, mapRef, hash, frame, viewLog, tileVars, apiVars, mapVars,
                 source, loads, skipPersistRef, saveTimeoutRef, saves, annotationsError>>

\* loadAnnotations or persistAnnotations takes the frame of the moment
ComputeFrame ==
  /\ mapRef # NoMap
  /\ active # NoLayer
  /\ frame' = computeFrame(mapRef, active, date)
  /\ UNCHANGED <<active, date, mapRef, moving, location, hash, linkLog, viewLog, tileVars, apiVars,
                 syncVars, mapVars>>

\* ---- the tiles of the imagery layer
\* a tile is requested from the source of the imagery layer
tileloadstart ==
  /\ mapRef # NoMap
  /\ viewLog.tiles < MaxTiles
  /\ imagery' = [imagery EXCEPT !.loading = @ + 1]
  /\ tilePending' = tilePending + 1
  /\ viewLog' = [viewLog EXCEPT !.tiles = @ + 1]
  /\ UNCHANGED <<active, date, mapRef, moving, frame, baseLayerRef, tileErrors, linkVars, apiVars,
                 syncVars, mapVars>>

\* one of its tiles has arrived
tileloadend ==
  /\ imagery.loading > 0
  /\ imagery' = [imagery EXCEPT !.loading = @ - 1]
  /\ tilePending' = IF tilePending > 0 THEN tilePending - 1 ELSE 0
  /\ UNCHANGED <<active, date, mapRef, moving, frame, viewLog, baseLayerRef, tileErrors, linkVars,
                 apiVars, syncVars, mapVars>>

\* one of its tiles has failed
tileloaderror ==
  /\ imagery.loading > 0
  /\ imagery' = [imagery EXCEPT !.loading = @ - 1]
  /\ tilePending' = IF tilePending > 0 THEN tilePending - 1 ELSE 0
  /\ tileErrors' = tileErrors + 1
  /\ UNCHANGED <<active, date, mapRef, moving, frame, viewLog, baseLayerRef, linkVars, apiVars,
                 syncVars, mapVars>>

\* a tile of a replaced source arrives or fails: nothing listens any more
TileOfReplacedSource ==
  /\ imagery.orphaned > 0
  /\ imagery' = [imagery EXCEPT !.orphaned = @ - 1]
  /\ UNCHANGED <<active, date, mapRef, moving, frame, viewLog, baseLayerRef, tilePending, tileErrors,
                 linkVars, apiVars, syncVars, mapVars>>


\* ---- the annotations of the frame in view
\* the links the page is opened on when the annotations are followed
FrameFragments ==
  {<<>>,
   Fragment(<<<<"1", "0", ".", "5">>, <<"2", "0", ".", "2", "5">>, <<"3">>,
              <<"2024-01-01">>, <<"gibs", ":", "b">>, GEOJSON_DATA_PROJECTION>>)}

Launch ==
  /\ ~viewLog.mounted /\ ~viewLog.torn
  /\ \E fragment \in FrameFragments : mounted(fragment)
  /\ viewLog' = [viewLog EXCEPT !.mounted = TRUE]

\* The callback of the fetch timer, on the map in view.
fetchTimeout ==
  /\ loadAnnotations(computeFrame(mapRef, active, date))
  /\ UNCHANGED <<apiVars, mapVars, linkVars, viewVars>>

\* The callback of the save timer, on the map in view.
saveTimeout ==
  /\ persistAnnotations(computeFrame(mapRef, active, date))
  /\ UNCHANGED <<apiVars, mapVars, linkVars, viewVars>>

\* The timer is left to run.
keepTimeout(timer) == timer

\* window.clearTimeout on a timer ref that holds a timer.
clearTimeout(timer) == NoTimer

\* MapView is unmounted: the cleanup of the effects, which clears the two
\* timers and lets go of the map.
Unmount ==
  /\ viewLog.mounted
  /\ viewLog' = [viewLog EXCEPT !.mounted = FALSE, !.torn = TRUE]
  /\ saveTimeoutRef' = IF saveTimeoutRef # NoTimer THEN clearTimeout(saveTimeoutRef)
                       ELSE saveTimeoutRef
  /\ fetchTimeoutRef' = IF fetchTimeoutRef # NoTimer THEN clearTimeout(fetchTimeoutRef)
                        ELSE fetchTimeoutRef
  /\ mapRef' = NoMap
  /\ UNCHANGED <<active, date, moving, frame, tileVars, linkVars, apiVars, mapVars,
                 source, skipPersistRef, saves, loads, annotationsError, hist>>

\* The draw interaction exists once the map does.
drawend ==
  /\ mapRef # NoMap
  /\ DrawEnd

Init ==
  /\ pendingCache = {}
  /\ net = <<>>
  /\ calls = <<>>
  /\ cachedCatalog = NoCatalog
  /\ cachedCatalogPromise = NoPromise
  /\ catalogCache = NoCatalog
  /\ catalogPromise = NoPromise
  /\ service = NoService
  /\ invalidations = [api |-> 0, layers |-> 0]
  /\ forcedCalls = 0
  /\ source = <<>>
  /\ skipPersistRef = FALSE
  /\ saveTimeoutRef = NoTimer
  /\ fetchTimeoutRef = scheduleFetchAnnotations(NoTimer)
  /\ saves = <<>>
  /\ loads = <<>>
  /\ hist = [mutations |-> 0, burst |-> 0, elapsed |-> SaveTicks, after |-> <<>>,
             moves |-> 0, quiet |-> 0, outcome |-> "none", fetches |-> 0, applied |-> 0,
             stale |-> FALSE]
  /\ annotationsError = NoError
  /\ requests = <<>>
  /\ importing = NoImport
  /\ mapLog = [ops |-> 0, settles |-> 0, last |-> NoRequest]
  /\ location = <<>>
  /\ hash = NoState
  /\ linkLog = [opened |-> <<>>, wrote |-> NoArgs]
  /\ active = NoLayer
  /\ date = <<>>
  /\ mapRef = NoMap
  /\ moving = FALSE
  /\ frame = NoFrame
  /\ viewLog = [mounted |-> FALSE, gestures |-> 0, changes |-> 0, reloads |-> 0, tiles |-> 0,
                torn |-> FALSE]
  /\ baseLayerRef = NoBase
  /\ tilePending = 0
  /\ tileErrors = 0
  /\ imagery = NoTiles

vars == <<apiVars, syncVars, mapVars, linkVars, viewVars>>

NextRequest ==
  \/ Request
  \/ fetchHealth
  \/ fetchAnnotations
  \/ fetchAnnotationsFrame
  \/ Settle

SpecRequest == Init /\ [][NextRequest]_vars

NextCatalog ==
  \/ fetchLayersCatalog
  \/ fetchLayersCatalogSettle
  \/ clearLayersCatalogCache
  \/ getLayerCatalog
  \/ getLayerCatalogSettle
  \/ resetLayerCatalogCache

SpecCatalog == Init /\ [][NextCatalog]_vars

NextSync ==
  \/ DrawEnd
  \/ Rename
  \/ deleteSelected
  \/ PanelDelete
  \/ ModifyEnd
  \/ importGeoJSON
  \/ MoveEnd
  \/ LoadTimerFire
  \/ LoadSettle
  \/ SaveTimerFire
  \/ SaveSettle
  \/ Tick

SpecSync == Init /\ [][NextSync]_vars

NextFrame ==
  \/ Launch
  \/ CatalogLoaded
  \/ handleChangeLayer
  \/ onChangeDate
  \/ Gesture
  \/ onMove
  \/ Tick
  \/ fetchTimeout

SpecFrame == Init /\ [][NextFrame]_vars

NextFlag ==
  \/ DrawEnd
  \/ importGeoJSON
  \/ MoveEnd
  \/ LoadTimerFire
  \/ LoadSettle
  \/ LoadThrows
  \/ SaveTimerFire
  \/ SaveSettle
  \/ SaveThrows
  \/ Tick

SpecFlag == Init /\ [][NextFlag]_vars

NextTeardown ==
  \/ Launch
  \/ CatalogLoaded
  \/ onMove
  \/ drawend
  \/ Tick
  \/ fetchTimeout
  \/ saveTimeout
  \/ Unmount

SpecTeardown == Init /\ [][NextTeardown]_vars

NextLoad ==
  \/ Launch
  \/ CatalogLoaded
  \/ handleChangeLayer
  \/ Tick
  \/ fetchTimeout
  \/ LoadSettle

SpecLoad == Init /\ [][NextLoad]_vars

NextSave ==
  \/ Launch
  \/ CatalogLoaded
  \/ Gesture
  \/ Tick
  \/ fetchTimeout
  \/ LoadSettle
  \/ drawend
  \/ saveTimeout

SpecSave == Init /\ [][NextSave]_vars

NextMap ==
  \/ MapLoadAnnotations
  \/ MapLoadSettle
  \/ MapDrawEnd
  \/ MapImportGeoJSON
  \/ CreateSettle
  \/ MapDeleteSelected
  \/ DeleteSettle
  \/ deleteFeature

SpecMap == Init /\ [][NextMap]_vars

NextPermalink ==
  \/ Open
  \/ go
  \/ WriteHash
  \/ Reload

SpecPermalink == Init /\ [][NextPermalink]_vars

NextView ==
  \/ Mount
  \/ Remount
  \/ CatalogLoaded
  \/ handleChangeLayer
  \/ onChangeDate
  \/ Gesture
  \/ onMove
  \/ ComputeFrame

SpecView == Init /\ [][NextView]_vars

NextTiles ==
  \/ Mount
  \/ CatalogLoaded
  \/ handleChangeLayer
  \/ onChangeDate
  \/ tileloadstart
  \/ tileloadend
  \/ tileloaderror
  \/ TileOfReplacedSource

SpecTiles == Init /\ [][NextTiles]_vars

\* ------------------------------------------------------------------ claims

\* The outcome a caller receives: that of the network call behind its promise.
Outcome(c) == <<net[calls[c].fetch].status, calls[c].fetch>>

DefaultGet(c) == calls[c].api = "request" /\ calls[c].method = "GET" /\ calls[c].opt = "default"

\* C1: GET calls of request() with the default caching that are identical (method,
\* URL, body) and made while an earlier one is unsettled share one network call,
\* and so one outcome.
C1_Deduplication ==
  \A c \in DOMAIN calls :
    DefaultGet(c) =>
      /\ \A d \in calls[c].during : calls[d].fetch = calls[c].fetch /\ Outcome(d) = Outcome(c)
      /\ calls[c].during # {} => calls[c].got = "joined"
      /\ Cardinality({calls[d].fetch : d \in calls[c].during \cup {c}}) = 1

\* Three identical default GET calls made while the first was unsettled, now settled.
C1_Witness ==
  \E c \in DOMAIN calls :
    /\ DefaultGet(c)
    /\ Cardinality(calls[c].during) >= 2
    /\ net[calls[c].fetch].status # "pending"

\* C2: the pending cache holds exactly the unsettled cached calls: a settled call
\* (success or failure) leaves no entry, the cache is empty when nothing is in
\* flight, and a call made after an identical call settled gets another network call.
C2_SettleRemovesEntry ==
  /\ pendingCache = {<<net[f].cacheKey, f>> : f \in {g \in PendingFetches : net[g].cacheKey # NoKey}}
  /\ PendingFetches = {} => pendingCache = {}
  /\ \A c \in DOMAIN calls : \A d \in calls[c].after :
        /\ calls[c].fetch # calls[d].fetch
        /\ calls[c].fetch > calls[d].fetch

\* A cached call made after one identical call succeeded and another failed.
C2_Witness ==
  \E c \in DOMAIN calls :
    /\ UseCache(calls[c].method, calls[c].opt)
    /\ calls[c].got = "new"
    /\ \E d \in calls[c].after : net[calls[d].fetch].status = "ok"
    /\ \E d \in calls[c].after : net[calls[d].fetch].status = "err"

AnnotationRead(c) == calls[c].api \in {"fetchAnnotations", "fetchAnnotationsFrame"}

CatalogApis == {"fetchLayersCatalog", "getLayerCatalog"}

NonForced(c) == calls[c].api \in CatalogApis /\ ~calls[c].force

\* The successful catalog fetches of a service, and those settled since the cache
\* was last invalidated.
Succeeded(api) == {f \in FetchesOf(api) : net[f].status = "ok"}
SucceededSince(api, epoch) == {f \in Succeeded(api) : net[f].settledAt = epoch}

\* C4: a non-forced catalog call that finds a memoized catalog returns it and makes
\* no network call; the catalog is memoized from the first success until the cache
\* is invalidated; so a session with no invalidation (and no forced refresh) sees
\* at most one successful catalog network call.
C4_CatalogMemoized ==
  /\ \A c \in DOMAIN calls :
        NonForced(c) /\ calls[c].memo # NoCatalog =>
          /\ calls[c].got = "memo"
          /\ calls[c].value = calls[c].memo
          /\ calls[c].fetch = NoPromise
  /\ cachedCatalog # NoCatalog <=> SucceededSince("fetchLayersCatalog", invalidations.api) # {}
  /\ catalogCache # NoCatalog <=> SucceededSince("getLayerCatalog", invalidations.layers) # {}
  /\ invalidations.api = 0 =>
        /\ Cardinality(Succeeded("fetchLayersCatalog")) <= 1
        /\ \A f \in Succeeded("fetchLayersCatalog") : cachedCatalog = net[f].value
  /\ invalidations.layers = 0 /\ forcedCalls = 0 =>
        /\ Cardinality(Succeeded("getLayerCatalog")) <= 1
        /\ \A f \in Succeeded("getLayerCatalog") : catalogCache = net[f].value

\* One successful fetch, then two non-forced calls served from the memoized catalog.
C4_Witness ==
  /\ Cardinality({c \in DOMAIN calls : NonForced(c) /\ calls[c].got = "memo"}) = 2
  /\ Cardinality({f \in DOMAIN net : net[f].status = "ok"}) = 1
  /\ Len(net) = 1

\* C5: as long as no invalidation and no forced refresh has happened, a non-forced
\* catalog call made while a catalog fetch is pending joins that fetch; at most one
\* catalog network call is in flight and all its callers get its outcome.
C5_CatalogSingleFlight ==
  /\ \A c \in DOMAIN calls :
        NonForced(c) /\ calls[c].clean /\ calls[c].pendingAt # {} =>
          /\ calls[c].got = "joined"
          /\ calls[c].pendingAt = {calls[c].fetch}
          /\ \A d \in calls[c].during : Outcome(d) = Outcome(c)
  /\ ApiClean => Cardinality(PendingOf("fetchLayersCatalog")) <= 1
  /\ LayersClean => Cardinality(PendingOf("getLayerCatalog")) <= 1

\* Three non-forced calls made during the first fetch share it, and it has settled.
C5_Witness ==
  \E c \in DOMAIN calls :
    /\ NonForced(c) /\ calls[c].clean
    /\ Cardinality(calls[c].during) = 2
    /\ Len(net) = 1
    /\ net[1].status # "pending"

\* A step in which a catalog fetch of the service fails, succeeds; a catalog call.
Fails(api) ==
  \E f \in FetchesOf(api) : net[f].status = "pending" /\ net'[f].status = "err"
Succeeds(api) ==
  \E f \in FetchesOf(api) : net[f].status = "pending" /\ net'[f].status = "ok"
Called(api) ==
  Len(calls') = Len(calls) + 1 /\ calls'[Len(calls')].api = api

\* C6: a failed catalog fetch stores nothing: the step in which it rejects leaves
\* the memoized value as it was (none, unless one was memoized before) and empties
\* the pending slot; a call that finds neither starts a new network fetch; and a
\* fetch that succeeds is memoized.
C6_FailureNotCached ==
  [][ /\ Fails("fetchLayersCatalog") =>
           cachedCatalogPromise' = NoPromise /\ cachedCatalog' = cachedCatalog
      /\ Fails("getLayerCatalog") =>
           catalogPromise' = NoPromise /\ catalogCache' = catalogCache
      /\ Called("fetchLayersCatalog") /\ cachedCatalog = NoCatalog
           /\ cachedCatalogPromise = NoPromise => Len(net') = Len(net) + 1
      /\ Called("getLayerCatalog") /\ catalogCache = NoCatalog
           /\ catalogPromise = NoPromise => Len(net') = Len(net) + 1
      /\ Succeeds("fetchLayersCatalog") => cachedCatalog' # NoCatalog
      /\ Succeeds("getLayerCatalog") => catalogCache' # NoCatalog
    ]_vars

\* A catalog fetch failed with nothing memoized, the next call fetched again, and
\* that fetch succeeded and is memoized.
C6_Witness ==
  \E c \in DOMAIN calls :
    /\ NonForced(c)
    /\ calls[c].got = "new"
    /\ calls[c].failedBefore # {}
    /\ calls[c].memo = NoCatalog
    /\ net[calls[c].fetch].status = "ok"
    /\ net[calls[c].fetch].value \in {cachedCatalog, catalogCache}

\* C7: a catalog fetch that fails while a catalog is memoized (a forced refresh)
\* leaves the memoized catalog unchanged, and non-forced calls still return it.
C7_FailedRefreshKeepsMemo ==
  /\ [][Fails("getLayerCatalog") => catalogCache' = catalogCache]_vars
  /\ [](\A c \in DOMAIN calls :
          calls[c].api = "getLayerCatalog" /\ ~calls[c].force /\ calls[c].memo # NoCatalog =>
            calls[c].got = "memo" /\ calls[c].value = calls[c].memo)

\* A forced refresh started with a catalog memoized has failed, and a later
\* non-forced call returned the catalog memoized before it.
C7_Witness ==
  \E c, d \in DOMAIN calls :
    /\ calls[d].api = "getLayerCatalog" /\ calls[d].force /\ calls[d].memo # NoCatalog
    /\ net[calls[d].fetch].status = "err"
    /\ NonForced(c) /\ calls[d].fetch \in calls[c].failedBefore
    /\ calls[c].got = "memo" /\ calls[c].value = calls[d].memo

\* ---- annotation synchronisation

\* Steps in which persistAnnotations dispatches a save, and in which remote state
\* is applied (a fetch or a save settles).
SaveDispatched == Len(saves') = Len(saves) + 1
RemoteSettled == Len(loads') < Len(loads) \/ Len(saves') < Len(saves)

\* C8: the local mutations made since the last save are followed by exactly one
\* save: a save is dispatched only for at least one mutation, only once the
\* debounce window after the last of them has elapsed, and with the entity set as
\* the last of them left it; and mutations not yet saved always have the save
\* timer pending.
C8_DebouncedSaveCoalescing ==
  /\ [][SaveDispatched =>
          /\ hist.burst >= 1
          /\ hist.elapsed >= SaveTicks
          /\ Labels(saves'[Len(saves')].payload) = hist.after]_vars
  /\ [](hist.burst >= 1 => saveTimeoutRef # NoTimer)

\* C9: at most one save call is in flight at any moment.
C9_SingleSaveInFlight == Len(saves) <= 1

\* C10: applying remote state (a fetch result, or the response of a save) leaves
\* the save debounce timer as it was, and as long as the user has made no local
\* mutation no save is scheduled or dispatched.
C10_RemoteApplyNeverSchedulesSave ==
  /\ [][RemoteSettled => saveTimeoutRef' = saveTimeoutRef]_vars
  /\ [](hist.mutations = 0 => saveTimeoutRef = NoTimer /\ saves = <<>>)

\* A fetch result with a remote entity has been applied, the user has done
\* nothing, and both timers are idle.
C10_Witness ==
  /\ hist.mutations = 0
  /\ \E i \in DOMAIN source : source[i].id # NoId
  /\ loads = <<>>
  /\ saveTimeoutRef = NoTimer /\ fetchTimeoutRef = NoTimer

\* A step in which the user mutates the annotation set.
LocalMutation == hist'.mutations = hist.mutations + 1

\* C11: every local mutation (draw end, modify end, rename, delete of selection,
\* delete from the notes panel, import) starts or restarts the save debounce
\* timer: after the mutation the timer is pending with a full window ahead.
C11_MutationSchedulesSave ==
  [][LocalMutation => saveTimeoutRef' = setTimeout(SaveTicks)]_vars

\* ---- Map: per-entity persistence

\* The persisted entities that a step removes from the source, fetch results aside.
RemovedPersisted ==
  {f \in Range(source) : f.id # NoId /\ \A g \in Range(source') : g.uid # f.uid}
MapSettled == mapLog'.settles = mapLog.settles + 1
FetchApplied == Len(loads') < Len(loads)

\* C12: a persisted entity (one with a server id) leaves the local set by a delete
\* only in the step in which its remote delete call succeeds, whatever the delete
\* path; and when a remote delete call fails the local set is left as it was.
C12_PersistedDeleteGoesRemote ==
  [][ /\ \A f \in RemovedPersisted :
           FetchApplied \/
             /\ MapSettled
             /\ mapLog'.last = [kind |-> "DELETE", origin |-> "selection",
                                uid |-> f.uid, id |-> f.id, status |-> "ok"]
      /\ MapSettled /\ mapLog'.last.kind = "DELETE" /\ mapLog'.last.status = "err"
           => source' = source
    ]_vars

\* The never-persisted entities (no server id) that a step removes from the source.
RemovedUnsaved ==
  {f \in Range(source) : f.id = NoId /\ \A g \in Range(source') : g.uid # f.uid}

\* C13: a local delete of a never-persisted entity causes no network call: it
\* dispatches no save and leaves the save debounce timer as it was, so no save
\* fires later because of it.
C13_NoOpDelete ==
  [][LocalMutation /\ RemovedUnsaved # {} =>
       saveTimeoutRef' = saveTimeoutRef /\ saves' = saves]_vars

\* A step in which the create call of an imported entity settles, with the status.
ImportSettled(status) ==
  /\ MapSettled
  /\ mapLog'.last.kind = "POST" /\ mapLog'.last.origin = "import"
  /\ mapLog'.last.status = status

\* The step leaves the import's next entity, if any, added and being persisted.
NextImported ==
  IF importing = <<>> THEN importing' = NoImport /\ Len(requests') = Len(requests) - 1
  ELSE /\ importing' = Tail(importing)
       /\ \E i \in DOMAIN source', k \in DOMAIN requests' :
            /\ source'[i].name = Head(importing) /\ source'[i].id = NoId
            /\ \A f \in Range(source) : f.uid # source'[i].uid
            /\ requests'[k] = [kind |-> "POST", origin |-> "import",
                               uid |-> source'[i].uid, id |-> NoId]
            /\ \A j \in DOMAIN requests : requests[j].uid # source'[i].uid

\* C14: import persists its entities one by one.  When the create call of entity i
\* fails, exactly entity i is removed from the local set and every other entity
\* stays; when it succeeds nothing is removed; either way the next entity of the
\* file is then added and its own create call dispatched.
C14_ImportRollsBackOneEntity ==
  [][ /\ ImportSettled("err") =>
           /\ \A f \in Range(source) :
                (f.uid = mapLog'.last.uid) # (\E g \in Range(source') : g = f)
           /\ NextImported
      /\ ImportSettled("ok") =>
           /\ \A f \in Range(source) : \E g \in Range(source') : g.uid = f.uid
           /\ NextImported
    ]_vars

\* An import of two entities has ended: the first was persisted and is still in
\* the local set, the second failed and was removed.
C14_Witness ==
  /\ mapLog.ops = 1 /\ mapLog.settles = 2
  /\ mapLog.last.origin = "import" /\ mapLog.last.status = "err"
  /\ importing = NoImport /\ requests = <<>>
  /\ Len(source) = 1 /\ source[1].id # NoId

\* Steps of the debounced engine: a fetch or save settles with the given outcome; a
\* move; a debounce timer fires.
Settled(outcome) == RemoteSettled /\ hist'.outcome = outcome
Moved == hist'.moves = hist.moves + 1
FetchTimerFired == Expired(fetchTimeoutRef) /\ fetchTimeoutRef' = NoTimer
SaveTimerFired == Expired(saveTimeoutRef) /\ saveTimeoutRef' = NoTimer

\* C15: a failed fetch or save sets the error status and schedules nothing (both
\* timers stay as they were, no call is dispatched); the next triggering event
\* still leads to a new call (a move starts the fetch timer, an edit starts the
\* save timer, and a timer that fires dispatches its call); a success clears the
\* error status.
C15_FailuresNotRetried ==
  [][ /\ Settled("err") =>
           /\ annotationsError' # NoError
           /\ saveTimeoutRef' = saveTimeoutRef /\ fetchTimeoutRef' = fetchTimeoutRef
           /\ Len(saves') <= Len(saves) /\ Len(loads') <= Len(loads)
      /\ Settled("ok") => annotationsError' = NoError
      /\ Moved => fetchTimeoutRef' = setTimeout(FetchTicks)
      /\ LocalMutation => saveTimeoutRef' = setTimeout(SaveTicks)
      /\ FetchTimerFired => Len(loads') = Len(loads) + 1
      /\ SaveTimerFired => Len(saves') = Len(saves) + 1
    ]_vars

\* ---- permalink codec
IsNumber(value) == value.type = "number" /\ ~value.nan

\* |a - b| <= 10^-decimals, on finite numbers
Within(a, b, decimals) ==
  LET wider == IF a.scale > b.scale THEN a.scale ELSE b.scale
      scale == IF wider > decimals THEN wider ELSE decimals
      difference == a.mant * Pow10(scale - a.scale) - b.mant * Pow10(scale - b.scale)
  IN /\ difference <= Pow10(scale - decimals)
     /\ 0 - difference <= Pow10(scale - decimals)

\* the fragment last written is the one the state was read from
RoundTripped == linkLog.wrote # NoArgs /\ linkLog.opened = location

\* C16: reading back the fragment writeHash wrote for a view, a date and a
\* layer key gives the view's longitude and latitude within 1e-5, its zoom
\* within 1e-2, and the date, the layer key and the projection code unchanged
\* in the slots d, k and p.
C16_PermalinkRoundTrip ==
  RoundTripped =>
    LET x == linkLog.wrote
        center == transform(x.view.center, x.view.projection, GEOJSON_DATA_PROJECTION)
    IN /\ IsNumber(hash.lon) /\ Within(hash.lon, center.lon, 5)
       /\ IsNumber(hash.lat) /\ Within(hash.lat, center.lat, 5)
       /\ IsNumber(hash.z) /\ Within(hash.z, x.view.zoom, 2)
       /\ hash.d = Str(x.dateISO)
       /\ hash.k = Str(x.layerKey)
       /\ hash.p = Str(x.view.projection)

\* a view whose longitude and zoom are rounded on the way has been written
\* and read back
C16_Witness ==
  /\ RoundTripped
  /\ linkLog.wrote.view.center.lon = Num(0 - 73999995, 6)
  /\ hash.lon = Num(0 - 7400000, 5)
  /\ linkLog.wrote.view.zoom = Num(3455, 3)
  /\ hash.z = Num(346, 2)

\* token i of the fragment the state was read from: the text between its
\* commas i - 1 and i, or undefined when the fragment has fewer tokens
Token(i) ==
  LET text == IF linkLog.opened # <<>> /\ linkLog.opened[1] = "#"
              THEN Tail(linkLog.opened) ELSE linkLog.opened
      commas == {c \in 1..Len(text) : text[c] = ","}
      Comma(n) == CHOOSE c \in commas : Cardinality({b \in commas : b < c}) = n - 1
      from == IF i = 1 THEN 1 ELSE Comma(i - 1) + 1
      to == IF i > Cardinality(commas) THEN Len(text) ELSE Comma(i) - 1
  IN IF i > Cardinality(commas) + 1 THEN undefined ELSE Str(SubSeq(text, from, to))

\* C17: a numeric slot (lon, lat, z) whose token is empty or is not a
\* numeral is undefined in the state read, and no numeric field is ever NaN.
C17_MalformedNumberIsUndefined ==
  \A i \in 1..Len(Fields) :
    Fields[i] \in NumericFields =>
      /\ (~truthy(Token(i)) \/ Number(Token(i).text) = NaN) => hash[Fields[i]] = undefined
      /\ hash[Fields[i]] # NaN

\* a = b on finite numbers
Same(a, b) ==
  LET scale == IF a.scale > b.scale THEN a.scale ELSE b.scale
  IN a.mant * Pow10(scale - a.scale) = b.mant * Pow10(scale - b.scale)

\* the number a numeral of the slot tables denotes
Denoted(text) == (CHOOSE numeral \in Numerals : numeral.text = text).value

\* C18: for a fragment of 0 to 6 tokens, each empty or well formed, the state
\* read has field i undefined when token i is absent or empty, the token
\* itself in the fields d, k and p, and the number the token denotes in the
\* fields lon, lat and z.
C18_PartialDecode ==
  \A i \in 1..Len(Fields) :
    LET token == Token(i)
        field == hash[Fields[i]]
    IN /\ ~truthy(token) => field = undefined
       /\ truthy(token) => field # undefined
       /\ (truthy(token) /\ Fields[i] \notin NumericFields) => field = token
       /\ (truthy(token) /\ Fields[i] \in NumericFields
             /\ \E numeral \in Numerals : numeral.text = token.text)
            => IsNumber(field) /\ Same(field, Denoted(token.text))

\* "#10.5,,3" has been read: three tokens, the middle one empty
C18_Witness ==
  /\ linkLog.opened = <<"#", "1", "0", ".", "5", ",", ",", "3">>
  /\ hash.lon = Num(105, 1)
  /\ hash.lat = undefined
  /\ hash.z = Num(3, 0)
  /\ hash.p = undefined

\* ---- MapView: view and frame
\* the date the imagery is resolved with
CurrentDate == IF date # <<>> THEN date ELSE layerDefaultDate(active, Today)

Encoding == writeHash(mapRef.view, CurrentDate, active.layerKey)

Mounted == viewLog'.mounted # viewLog.mounted \/ viewLog'.reloads # viewLog.reloads

MoveEnded == ~Mounted /\ moving /\ ~moving'

Gestured == viewLog'.gestures # viewLog.gestures

Replaced ==
  /\ ~Mounted
  /\ mapRef' # NoMap /\ active' # NoLayer
  /\ active' # active \/ date' # date

\* C19: but for the page being loaded, the fragment changes only at a
\* moveend or when the layer or the date is replaced; after each of these it
\* is the encoding of the view's centre, zoom and projection, of the date
\* and of the active layer's key; a frame of a gesture leaves it alone.
C19_PermalinkFollowsSettledView ==
  [][ /\ (location' # location /\ ~Mounted) => (MoveEnded \/ Replaced)
      /\ (MoveEnded \/ Replaced) => location' = Encoding'
      /\ Gestured => location' = location
    ]_vars

\* two frames into a gesture the fragment is still that of the last settled
\* view
C19_Witness ==
  /\ moving
  /\ viewLog.gestures = MaxGestures
  /\ linkLog.wrote # NoArgs
  /\ location = writeHash(linkLog.wrote.view, CurrentDate, active.layerKey)
  /\ location # Encoding

C21_LayerStaysInBody ==
  [][(active # NoLayer /\ ~Mounted)
       => /\ active' \in allLayers
          /\ toLowerCase(active'.body) = toLowerCase(active.body)]_vars

C21_Witness ==
  /\ viewLog.changes > 0
  /\ active # NoLayer
  /\ active.layerKey = <<"gibs", ":", "d">>

\* C22: the map has the OSM base layer exactly when the projection of its view
\* is EPSG:3857, and never more than one, whatever layers were switched
C22_BaseLayerIffWebMercator ==
  mapRef # NoMap =>
    /\ mapRef.base <= 1
    /\ mapRef.base = 1 <=> mapRef.view.projection = WebMercator

\* C23: when the layer or the date changes, the imagery source is replaced,
\* the counters of loading and of failed tiles are back at zero, and no tile of
\* a replaced source moves them afterwards
C23_TileTrackerReset ==
  [][/\ Replaced => tilePending' = 0 /\ tileErrors' = 0
     /\ imagery'.orphaned < imagery.orphaned => UNCHANGED <<tilePending, tileErrors>>]_vars

\* the view ensureProjection starts from: at a layer change that of the map
\* just built, at a date change that of the map there is
OldView ==
  IF active' # active THEN NewMap(hash, active', baseLayerRef).mapRef.view ELSE mapRef.view

Geographic(view) == transform(view.center, view.projection, GEOJSON_DATA_PROJECTION)

C25_ZoomWithinLayerBounds ==
  [][Replaced =>
       LET layer == active'
           zoom == mapRef'.view.zoom
           low == IF layer.minZoom # undefined THEN layer.minZoom ELSE Num(0, 0)
           high == maxZoom(layer, targetProj(layer))
       IN IsNumber(zoom) /\ ~Less(zoom, low) /\ ~Less(high, zoom)]_vars

\* C27: the result of a fetch is never applied to the entity set after the
\* result of a fetch dispatched later has been, and when the last fetch in
\* flight has been applied the set is that of the fetch dispatched last
C27_FetchResultsInOrder ==
  [][/\ hist'.applied >= hist.applied
     /\ (FetchApplied /\ loads' = <<>> /\ hist'.applied # hist.applied)
          => hist'.applied = hist.fetches]_vars

\* Steps in which the fetch timer stops pending without a new one, and in
\* which a fetch is dispatched.
FetchTimerGone == fetchTimeoutRef # NoTimer /\ fetchTimeoutRef' = NoTimer
FetchDispatched == Len(loads') = Len(loads) + 1

\* C26: a moveend, a layer change and a date change each leave one fetch timer
\* pending with the whole window of 250 ms ahead of it, whatever was pending
\* before; the callback of the timer runs only when the whole window has
\* passed since the last trigger, so that of a burst only the last scheduled
\* fetch runs; and the fetch it dispatches has the frame of that moment.
C26_FetchDebounce ==
  /\ [][(MoveEnded \/ Replaced) => fetchTimeoutRef' = FetchDebounceMs \div TickMs]_vars
  /\ [][FetchTimerGone => Expired(fetchTimeoutRef) /\ hist.quiet * TickMs >= FetchDebounceMs]_vars
  /\ [][FetchDispatched =>
          /\ FetchTimerGone
          /\ loads'[Len(loads')].frame = computeFrame(mapRef, active, date)]_vars

\* A fetch is in flight for the view a gesture has left, the gesture made
\* after the only trigger (the first layer) and its moveend still to come.
C26_Witness ==
  /\ viewLog.gestures = 1 /\ viewLog.changes = 0 /\ moving
  /\ loads # <<>>
  /\ loads[Len(loads)].frame.zoom = Num(12995, 3)
  /\ hash.z # Num(12995, 3)

\* C28: when the result of a fetch is applied while a save is scheduled, the
\* entities created locally and not saved yet stay in the entity set, and the
\* save that then fires has in its payload what the last mutation left.
C28_MutationSurvivesFetch ==
  /\ [][(FetchApplied /\ saveTimeoutRef # NoTimer) =>
          \A i \in DOMAIN source :
            source[i].id = NoId => \E j \in DOMAIN source' : source'[j].uid = source[i].uid]_vars
  /\ [][(SaveDispatched /\ hist.burst >= 1) =>
          \A i \in DOMAIN hist.after :
            \E j \in DOMAIN saves'[Len(saves')].payload :
              saves'[Len(saves')].payload[j].name = hist.after[i]]_vars

\* The feature objects a save in flight has submitted without a server id.
SubmittedNew(save) ==
  {save.sourceFeatures[i] : i \in {j \in DOMAIN save.payload : save.payload[j].id = NoId}}

\* C29: no save is dispatched with an entity that has no server id while an
\* earlier save that holds the same entity without id is still in flight.
C29_NewEntitySubmittedOnce ==
  [][SaveDispatched =>
       \A k \in DOMAIN saves :
         SubmittedNew(saves[k]) \cap SubmittedNew(saves'[Len(saves')]) = {}]_vars

\* C30: a save dispatched by persistAnnotations holds every entity of the set
\* as it is when the timer fires, in the order of the set, the i-th with order
\* i - 1 and with its server id if it has one, and the frame of that moment.
C30_SavePayload ==
  [][SaveDispatched =>
       LET save == saves'[Len(saves')]
       IN /\ Expired(saveTimeoutRef)
          /\ Len(save.payload) = Len(source)
          /\ \A i \in 1..Len(source) :
               /\ save.payload[i].order = i - 1
               /\ save.payload[i].id = source[i].id
               /\ save.payload[i].name = source[i].name
               /\ save.sourceFeatures[i] = source[i].uid
          /\ save.frame = computeFrame(mapRef, active, date)]_vars

\* A save in flight holds two entities the server already had, which the user
\* has not touched, for the view a gesture has left since the link was read.
C30_Witness ==
  \E k \in DOMAIN saves :
    /\ Len(saves[k].payload) = 2
    /\ saves[k].payload[1].id # NoId
    /\ saves[k].payload[2].order = 1
    /\ saves[k].frame.zoom = Num(12995, 3)
    /\ hash.z # Num(12995, 3)

\* Steps in which a save is answered with the saved records.
SaveMerged == Len(saves') < Len(saves) /\ hist'.outcome = "ok"

\* C31: when a save succeeds, the i-th returned record gives its id, and its
\* properties if it has any, to the entity that was i-th in the payload, if the
\* set still holds it; every other entity of the set, added or put there by a
\* fetch while the save was in flight, is left as it was.
C31_PositionalMerge ==
  [][SaveMerged =>
       \E k \in DOMAIN saves :
         LET saved == Saved(saves[k].payload, UsedIds)
             submitted == saves[k].sourceFeatures
         IN /\ saves' = Remove(saves, k)
            /\ Len(source') = Len(source)
            /\ \A j \in DOMAIN source :
                 /\ source'[j].uid = source[j].uid
                 /\ \A i \in DOMAIN submitted :
                      submitted[i] = source[j].uid =>
                        /\ source'[j].id = saved[i].id
                        /\ source'[j].name \in {source[j].name, saved[i].name}
                 /\ (\A i \in DOMAIN submitted : submitted[i] # source[j].uid)
                      => source'[j] = source[j]]_vars

\* A save has just been merged that had submitted an entity the set no longer
\* holds, and the set holds an entity that was not submitted and has no id.
C31_Witness ==
  /\ hist.stale /\ hist.outcome = "ok"
  /\ \E j \in DOMAIN source : source[j].id = NoId

\* Steps in which a fetch is answered with the records of the frame.
FetchAnswered == Len(loads') < Len(loads) /\ hist'.outcome = "ok"

FetchRejected == Len(loads') < Len(loads) /\ hist'.outcome = "err"

\* C33: when a fetch fails the entity set is left as it was, entity by entity,
\* and so are the timers and the saves in flight; the error status is set.
C33_FailedFetchKeepsSet ==
  [][FetchRejected =>
       /\ source' = source
       /\ UNCHANGED <<saveTimeoutRef, fetchTimeoutRef, saves>>
       /\ annotationsError' # NoError]_vars

\* The last answer was a failed fetch, and the set holds an entity.
C33_Witness ==
  /\ hist.outcome = "err"
  /\ annotationsError = "No se pudieron cargar las anotaciones."
  /\ source # <<>>

\* C34: between callbacks skipPersistRef is false, whichever way
\* loadAnnotations, persistAnnotations and importGeoJSON were left, an
\* exception thrown while the flag was set included.
C34_FlagClearBetweenCallbacks == skipPersistRef = FALSE

\* A fetch has been answered with a record that made loadAnnotations throw
\* after it had set the flag and cleared the source.
C34_Witness ==
  /\ hist.outcome = "thrown"
  /\ annotationsError = "TypeError"
  /\ hist.mutations > 0 /\ source = <<>> /\ loads = <<>> /\ saves # <<>>

\* ---- catalog caches, invalidation and forced refresh

\* The fetch answered in this step, for a service.
Answered(api) ==
  {f \in FetchesOf(api) : net[f].status = "pending" /\ net'[f].status # "pending"}

\* The fetch was started by a call made before any invalidation of the cache,
\* and the cache has been invalidated since.
Invalidated(f, count) ==
  /\ count > 0
  /\ \E c \in DOMAIN calls : calls[c].fetch = f /\ calls[c].got = "new" /\ calls[c].clean

\* C35: a catalog fetch that was in flight when the cache was invalidated does
\* not store its result as the memoized catalog when it is answered, and does
\* not empty the pending slot when that holds a fetch started afterwards.
C35_InvalidationNotUndone ==
  [][/\ \A f \in Answered("fetchLayersCatalog") :
          Invalidated(f, invalidations.api) =>
            /\ cachedCatalog' = cachedCatalog
            /\ cachedCatalogPromise \notin {NoPromise, f}
                 => cachedCatalogPromise' = cachedCatalogPromise
     /\ \A f \in Answered("getLayerCatalog") :
          Invalidated(f, invalidations.layers) =>
            /\ catalogCache' = catalogCache
            /\ catalogPromise \notin {NoPromise, f}
                 => catalogPromise' = catalogPromise]_vars

\* C36: a non-forced getLayerCatalog call made while a catalog fetch is in
\* flight, a forced one started during an earlier fetch included, starts no
\* network call: it joins a fetch in flight unless it returns a memoized
\* catalog; and the answer of a fetch leaves the pending slot alone when that
\* holds a newer fetch.
C36_ForcedRefreshSingleFlight ==
  /\ [](\A c \in DOMAIN calls :
          (calls[c].api = "getLayerCatalog" /\ ~calls[c].force /\ calls[c].pendingAt # {}) =>
            /\ calls[c].got # "new"
            /\ calls[c].got = "joined" => calls[c].fetch \in calls[c].pendingAt)
  /\ [][\A f \in Answered("getLayerCatalog") :
          catalogPromise \notin {NoPromise, f} => catalogPromise' = catalogPromise]_vars

\* ---- teardown

\* C37: once MapView has been unmounted no debounce timer is pending, and no
\* fetch and no save is dispatched any more, whatever was scheduled when it
\* was unmounted.
C37_TeardownCancelsTimers ==
  /\ [](viewLog.torn => saveTimeoutRef = NoTimer /\ fetchTimeoutRef = NoTimer)
  /\ [][viewLog.torn => Len(loads') <= Len(loads) /\ Len(saves') <= Len(saves)]_vars

\* MapView was unmounted with a drawn entity not saved yet, and the window of
\* the save has passed since.
C37_Witness ==
  /\ viewLog.torn
  /\ hist.burst > 0 /\ saves = <<>>
  /\ hist.elapsed * TickMs >= SaveDebounceMs

\* ------------------------------------------------------------------ C38
\* the key of the permalink names no layer of the catalog and carries no
\* "gibs:" or "trek:" hint (a missing key included)
NoLayerHint(state) ==
  LET key == IF state.k = undefined THEN <<>> ELSE state.k.text
  IN \/ key = <<>>
     \/ /\ \A i \in 1..Len(Catalog) : Catalog[i].layerKey # key
        /\ ~startsWith(key, <<"gibs", ":">>)
        /\ ~startsWith(key, <<"trek", ":">>)

\* C38: when the permalink has no layer key, or one that matches no layer
\* of the catalog and has no recognised hint, the layer that becomes active
\* at startup is the first layer of the catalog; and once a layer is
\* active it changes, for as long as the view stays mounted, only by a
\* layer change of the user, never by resolving the permalink again.
C38_StartupLayerFallback ==
  [][/\ (active = NoLayer /\ active' # NoLayer /\ NoLayerHint(hash))
          => active' = Catalog[1]
     /\ (active # NoLayer /\ active' # NoLayer /\ active' # active)
          => viewLog'.changes = viewLog.changes + 1]_<<active, hash, viewLog>>

\* ------------------------------------------------------------------ C39
\* ---- services/api: what fetchAnnotations and createAnnotations return

null == [type |-> "null"]

\* String.prototype.trim on a text whose white space is the symbol " "
RECURSIVE trim(_)
trim(text) ==
  IF text # <<>> /\ Head(text) = " " THEN trim(Tail(text))
  ELSE IF text # <<>> /\ text[Len(text)] = " " THEN trim(SubSeq(text, 1, Len(text) - 1))
  ELSE text

\* String(value) for undefined, null, a string, NaN or an integer
String(value) ==
  CASE value.type = "undefined" -> <<"undefined">>
    [] value.type = "null" -> <<"null">>
    [] value.type = "string" -> value.text
    [] value.type = "number" ->
         IF value.nan THEN <<"NaN">>
         ELSE IF value.mant < 0 THEN <<"-">> \o DigitsOf(0 - value.mant)
         ELSE DigitsOf(value.mant)

\* pickString(...values): the first value that is a string with something
\* besides white space in it, trimmed; undefined when there is none
pickString(values) ==
  LET picked == {i \in 1..Len(values) :
                   values[i].type = "string" /\ Len(trim(values[i].text)) > 0}
  IN IF picked = {} THEN undefined
     ELSE Str(trim(values[CHOOSE i \in picked : \A j \in picked : i <= j].text))

\* pickNumber(...values): the first value that is, or as a string denotes, a
\* finite number; undefined when there is none
pickNumber(values) ==
  LET num(value) == CASE value.type = "number" -> value
                      [] value.type = "string" -> Number(value.text)
                      [] OTHER -> NaN
      picked == {i \in 1..Len(values) : ~num(values[i]).nan}
  IN IF picked = {} THEN undefined
     ELSE num(values[CHOOSE i \in picked : \A j \in picked : i <= j])

\* ensureFeatureGeometry: the feature when it has a geometry, else a point at
\* the fallback coordinates when both are numbers, else null
ensureFeatureGeometry(feature, fallbackLon, fallbackLat) ==
  IF feature.type = "object" /\ feature.geometry # undefined THEN feature
  ELSE IF fallbackLon.type = "number" /\ fallbackLat.type = "number"
       THEN [type |-> "object", geometry |-> [kind |-> "Point", coordinates |-> <<fallbackLon, fallbackLat>>]]
       ELSE null

\* the id normalizeAnnotation gives a record: id, annotationId, uuid, and
\* as the last candidate String(raw.id)
idOf(raw) == pickString(<<raw.id, raw.annotationId, raw.uuid, Str(String(raw.id))>>)

\* normalizeAnnotation(raw): null for what is not an object, has no id or
\* has no geometry; else the AnnotationRecord (its id, order and feature;
\* properties, createdAt and updatedAt are copied through and left out here)
normalizeAnnotation(raw) ==
  IF raw.type # "object" THEN null
  ELSE IF idOf(raw) = undefined THEN null
  ELSE LET feature == ensureFeatureGeometry(raw.feature, pickNumber(<<raw.lon>>),
                                            pickNumber(<<raw.lat>>))
       IN IF feature = null THEN null
          ELSE [type |-> "object", id |-> idOf(raw).text,
                order |-> pickNumber(<<raw.order>>), feature |-> feature]

\* a raw record of /v1/annotations
Raw(id, annotationId, uuid, feature, lon, lat) ==
  [type |-> "object", id |-> id, annotationId |-> annotationId, uuid |-> uuid,
   feature |-> feature, lon |-> lon, lat |-> lat, order |-> undefined]

Drawn == [type |-> "object", geometry |-> [kind |-> "Polygon"]]

\* What the server may answer: the list under "items", under "features" or
\* the answer itself, or an answer that holds no list.  The records carry a
\* padded id, another of the three names, a numeric id, a null id, or none of
\* the three; they come with a geometry, with coordinates only, or neither.
AnnotationAnswers ==
  {[shape |-> "items",
    list |-> <<Raw(Str(<<" ", "a1", " ">>), undefined, undefined, Drawn, undefined, undefined)>>],
   [shape |-> "items",
    list |-> <<Raw(undefined, undefined, undefined, Drawn, undefined, undefined)>>],
   [shape |-> "features",
    list |-> <<Raw(Num(7, 0), undefined, undefined, undefined, Num(10, 0), Num(20, 0))>>],
   [shape |-> "features",
    list |-> <<Raw(null, undefined, Str(<<"c3">>), Drawn, undefined, undefined),
               null>>],
   [shape |-> "array",
    list |-> <<Raw(undefined, Str(<<"b2">>), undefined, Drawn, undefined, undefined),
               Raw(undefined, undefined, undefined, undefined, undefined, undefined)>>],
   [shape |-> "array",
    list |-> <<Raw(Str(<<" ">>), undefined, undefined, Drawn, undefined, undefined),
               Raw(Str(<<"a1">>), undefined, undefined, undefined, Num(10, 0), undefined)>>],
   [shape |-> "none", list |-> <<>>]}

RECURSIVE normalizeAll(_)
normalizeAll(rawList) ==
  IF rawList = <<>> THEN <<>>
  ELSE LET normalized == normalizeAnnotation(Head(rawList))
       IN (IF normalized = null THEN <<>> ELSE <<normalized>>) \o normalizeAll(Tail(rawList))

\* fetchAnnotations reads data.items, else data.features, else data itself;
\* createAnnotations reads data.features only
rawListOf(api, data) ==
  IF api = "fetchAnnotations" \/ data.shape = "features" THEN data.list ELSE <<>>

\* createAnnotations up to its await: request() with POST and useCache: false
createAnnotations ==
  /\ request("createAnnotations", "POST", "/v1/annotations", "b1", "false")
  /\ UNCHANGED <<syncVars, mapVars, linkVars, viewVars, cachedCatalog, cachedCatalogPromise,
                 catalogCache, catalogPromise, service, invalidations, forcedCalls>>

AnnotationApis == {"fetchAnnotations", "createAnnotations"}

\* The server answers a call for annotations: request() settles, and on
\* success fetchAnnotations / createAnnotations return the normalized records.
AnnotationsSettle ==
  /\ \E f \in PendingFetches :
       /\ net[f].api \in AnnotationApis
       /\ \/ \E data \in AnnotationAnswers :
               net' = [net EXCEPT ![f].status = "ok",
                                  ![f].value = [data |-> data,
                                                records |-> normalizeAll(rawListOf(net[f].api, data))]]
          \/ net' = [net EXCEPT ![f].status = "err"]
       /\ pendingCache' = IF net[f].cacheKey # NoKey /\ SettleDeletes("ok")
                            THEN CacheDelete(pendingCache, net[f].cacheKey)
                            ELSE pendingCache
  /\ UNCHANGED <<syncVars, mapVars, linkVars, viewVars, calls, cachedCatalog, cachedCatalogPromise,
                 catalogCache, catalogPromise, service, invalidations, forcedCalls>>

NextNormalize ==
  \/ fetchAnnotations
  \/ createAnnotations
  \/ AnnotationsSettle

SpecNormalize == Init /\ [][NextNormalize]_vars

\* the ids the server supplied in a raw record: what it carries as id,
\* annotationId or uuid, a string (trimmed) or a number
SuppliedIds(raw) ==
  IF raw.type # "object" THEN {}
  ELSE {trim(String(value)) :
          value \in {v \in {raw.id, raw.annotationId, raw.uuid} :
                       v.type \in {"string", "number"}}}

\* C39: of the raw records the server answered, those with no id,
\* annotationId or uuid are dropped, and every record fetchAnnotations or
\* createAnnotations returned carries an id that one of the raw records of
\* the answer supplied.
C39_RecordsCarrySuppliedId ==
  \A f \in DOMAIN net :
    (net[f].api \in AnnotationApis /\ net[f].status = "ok") =>
      LET rawList == rawListOf(net[f].api, net[f].value.data)
          records == net[f].value.records
      IN /\ Len(records) <= Cardinality({i \in DOMAIN rawList : SuppliedIds(rawList[i]) # {}})
         /\ \A j \in DOMAIN records :
              \E i \in DOMAIN rawList : records[j].id \in SuppliedIds(rawList[i])

====
